---- MODULE Spec2Model ----
(***************************************************************************)
(* Card catalogue import of collectables-scripts (src/import_cards.py).    *)
(*                                                                         *)
(* The relational store is modelled as one set of rows per table.  Every   *)
(* row carries an id: for card_types, card_subtypes and card_images, whose *)
(* id the code never reads, it stands for the physical row, so that two    *)
(* rows with equal columns remain two rows.  The tables' DDL is not part   *)
(* of the repository: the model executes exactly the statements the code   *)
(* issues, on tables without uniqueness or foreign-key constraints.        *)
(* Of a card row the model keeps the key (external id, set id) and the     *)
(* supertype, of a details row the weakness modifier and value; the other  *)
(* columns are written by the same statements and read by no condition.    *)
(***************************************************************************)
EXTENDS Integers, Sequences, FiniteSets, TLC

VARIABLES
    cards,      \* rows [id, external_id, set_id, supertype]
    details,    \* card_pokemon_details rows [id, card_id, weakness_modifier, weakness_value]
    attacks,    \* card_attacks rows [id, pd, name, damage, text]
    costs,      \* card_attack_costs rows [id, attack_id, cost]
    abilities,  \* card_abilities rows [id, pd, name, text, type]
    types,      \* card_types rows [id, pd, type]
    subtypes,   \* card_subtypes rows [id, card_id, subtype]
    rules,      \* card_rules rows [id, card_id, text]
    images,     \* card_images rows [id, card_id, resolution, url]
    sets,       \* sets rows [id, series, release_date, printed_total]
    nextId,     \* next value of the store's id sequence
    imports,    \* number of import_cards runs so far
    last,       \* the last import_cards run: its file, whether it succeeded (ok),
                \* whether it repeated the file of a successful run right
                \* before it (again), the sequence value it started from (from)
                \* and the statements it executed (ins, upd, del)
    card_price,         \* rows [id, card_id, finish, condition, updated_at, price]
    card_price_history, \* rows of the history table, see ArchiveOld
    today,      \* datetime.now() at midnight, as a day number
    all_cards,  \* the cards import_prices_from_api has fetched
    cursor,     \* the position in all_cards of the card it processes next
    pc,         \* "idle", or "processing" while it is in its loop over all_cards
    price_imports, \* number of import_prices_from_api runs so far
    plast,      \* the last process_card_prices call: its card, the card row it
                \* found, its updated_at, whether it returned (ok) and the
                \* insert_price_data calls it committed
    lastCall,   \* per (card, finish, condition), the last insert_price_data
                \* call committed before the process_card_prices call of plast
    max_workers, \* run_imports' number of worker processes
    futures,    \* per endpoint, the future of its process_endpoint task: its
                \* state, the outcomes of its import subprocesses so far (log),
                \* the delays it has slept and its result
    completed,  \* run_imports' counters
    successful,
    workers,    \* per endpoint, the import_prices.py subprocess of its task:
                \* the cards it has fetched (all_cards), its position in them
                \* (cursor), where it is (pc) and the (card, finish,
                \* condition) triples whose rows its statements have
                \* addressed so far (touched)
    exited,     \* the last command-line process that ended: its script,
                \* whether its import raised and its exit code
    call        \* the last call of one of the two functions that decide a
                \* card's set number: the function (fn), its arguments
                \* (args) and what it returned (result)

cardvars == <<cards, details, attacks, costs, abilities, types, subtypes, rules,
              images, sets, nextId, imports, last>>

pricevars == <<card_price, card_price_history, today, all_cards, cursor, pc,
               price_imports, plast, lastCall>>

runvars == <<max_workers, futures, completed, successful, workers>>

vars == <<cardvars, pricevars, runvars, exited, call>>

tables == <<cards, details, attacks, costs, abilities, types, subtypes, rules,
            images>>

\* Number of import_cards runs explored from the empty store.
MaxImports == 3

----------------------------------------------------------------------------
(* Values of the feed *)

Pokemon == "Pokemon"      \* the creature supertype
Trainer == "Trainer"
FREE == "FREE"            \* the sentinel cost symbol

Digits == {"0", "1", "2", "3", "4", "5", "6", "7", "8", "9"}

DigitValue(c) ==
    CASE c = "0" -> 0 [] c = "1" -> 1 [] c = "2" -> 2 [] c = "3" -> 3
      [] c = "4" -> 4 [] c = "5" -> 5 [] c = "6" -> 6 [] c = "7" -> 7
      [] c = "8" -> 8 [] c = "9" -> 9

\* int(s) of a string given as a sequence of characters: it raises ValueError
\* unless s is a non-empty run of digits (signs and blanks are not in the
\* alphabet of the modelled feed).
IntRaises(s) == Len(s) = 0 \/ \E i \in 1..Len(s) : s[i] \notin Digits

RECURSIVE IntOf(_)
IntOf(s) ==
    IF Len(s) = 0 THEN 0
    ELSE 10 * IntOf(SubSeq(s, 1, Len(s) - 1)) + DigitValue(s[Len(s)])

Tail1(s) == SubSeq(s, 2, Len(s))   \* s[1:]

----------------------------------------------------------------------------
(* The store inside one transaction: the tables, the id sequence and the   *)
(* numbers of INSERT, UPDATE and DELETE statements executed so far.        *)

Max(S) == CHOOSE x \in S : \A y \in S : y <= x

RECURSIVE AscById(_)
AscById(R) ==
    IF R = {} THEN <<>>
    ELSE LET m == CHOOSE r \in R : \A q \in R : r.id <= q.id
         IN  <<m>> \o AscById(R \ {m})

Reverse(s) == [i \in 1..Len(s) |-> s[Len(s) + 1 - i]]

\* fetchall() of a SELECT without ORDER BY: the row order is the store's
\* choice; desc selects one of the two orders the model lets it take.
Fetch(R, desc) == IF desc THEN Reverse(AscById(R)) ELSE AscById(R)

\* {row.f: row for row in rows}: a later row replaces an earlier one.
InMap(rows, f, k) == \E i \in 1..Len(rows) : rows[i][f] = k
MapGet(rows, f, k) == rows[Max({i \in 1..Len(rows) : rows[i][f] = k})]

Range(s) == {s[i] : i \in 1..Len(s)}

\* One INSERT of row into table t; the row takes the next id of the sequence.
Insert(st, t, row) ==
    [st EXCEPT ![t] = @ \cup {row}, !.next = @ + 1, !.ins = @ + 1]

\* n UPDATE statements that leave table t as R.
Update(st, t, R, n) == [st EXCEPT ![t] = R, !.upd = @ + n]

\* n DELETE statements that leave table t as R.
Delete(st, t, R, n) == [st EXCEPT ![t] = R, !.del = @ + n]


\* v is evaluated once and F applied to its value: the sequencing of two
\* statements.
Then(v, F(_)) == CHOOSE r \in {F(x) : x \in {v}} : TRUE

----------------------------------------------------------------------------
(* sync_card_attacks and the reconciliation of each attack's costs *)

\* Mutant: attack.get('cost', []), no sentinel for a missing cost field.
AttackCosts_NoSentinel(attack) == attack.cost

\* attack.get('cost', ['FREE'])
AttackCosts(attack) == IF attack.hasCost THEN attack.cost ELSE <<FREE>>

\* for cost in costs: ... (lines 141-147)
RECURSIVE CostLoop(_, _, _, _, _, _)
CostLoop(st, attack_id, cs, current_costs, processed_costs, i) ==
    IF i > Len(cs) THEN [st |-> st, processed |-> processed_costs]
    ELSE IF InMap(current_costs, "cost", cs[i])
         THEN Then(processed_costs \cup {MapGet(current_costs, "cost", cs[i]).id},
                   LAMBDA p : CostLoop(st, attack_id, cs, current_costs, p, i + 1))
         ELSE Then(Insert(st, "costs",
                          [id |-> st.next, attack_id |-> attack_id, cost |-> cs[i]]),
                   LAMBDA st1 :
                       CostLoop(st1, attack_id, cs, current_costs,
                                processed_costs \cup {st.next}, i + 1))

\* "Handle attack costs" and "Remove old costs" of one attack (lines 134-152)
SyncAttackCosts(st, attack_id, attack, desc) ==
    Then(Fetch({c \in st.costs : c.attack_id = attack_id}, desc),
         LAMBDA current_costs :
    Then(CostLoop(st, attack_id, AttackCosts(attack), current_costs, {}, 1),
         LAMBDA r :
    Then({c.id : c \in {x \in Range(current_costs) : x.id \notin r.processed}},
         LAMBDA stale :
             Delete(r.st, "costs", {c \in r.st.costs : c.id \notin stale},
                    Cardinality(stale)))))

\* Mutant: the UPDATE sets the damage and leaves the text.
UpdateAttack_DamageOnly(st, attack_id, attack) ==
    Update(st, "attacks",
           {IF a.id = attack_id THEN [a EXCEPT !.damage = attack.damage]
            ELSE a : a \in st.attacks}, 1)

\* UPDATE card_attacks SET damage, text WHERE id (line 122)
UpdateAttack(st, attack_id, attack) ==
    Update(st, "attacks",
           {IF a.id = attack_id
            THEN [a EXCEPT !.damage = attack.damage, !.text = attack.text]
            ELSE a : a \in st.attacks}, 1)

\* One attack of the feed on the store st (lines 118-152); the result is the
\* store and the id added to processed, if any.
SyncAttack(st, pd, attack, current_attacks, desc) ==
    IF InMap(current_attacks, "name", attack.name)
    THEN Then(MapGet(current_attacks, "name", attack.name).id,
              LAMBDA attack_id :
         Then(UpdateAttack(st, attack_id, attack),
              LAMBDA st1 :
                  [st |-> SyncAttackCosts(st1, attack_id, attack, desc),
                   processed |-> {attack_id}]))
    ELSE Then(Insert(st, "attacks",
                     [id |-> st.next, pd |-> pd, name |-> attack.name,
                      damage |-> attack.damage, text |-> attack.text]),
              LAMBDA st1 :
                  [st |-> SyncAttackCosts(st1, st.next, attack, desc),
                   processed |-> {}])

\* for attack in attacks: ... (lines 117-152)
RECURSIVE AttackLoop(_, _, _, _, _, _, _)
AttackLoop(st, pd, as, current_attacks, processed, i, desc) ==
    IF i > Len(as) THEN [st |-> st, processed |-> processed]
    ELSE Then(SyncAttack(st, pd, as[i], current_attacks, desc),
              LAMBDA r :
                  AttackLoop(r.st, pd, as, current_attacks,
                             processed \cup r.processed, i + 1, desc))

sync_card_attacks(st, pokemon_details_id, as, desc) ==
    Then(Fetch({a \in st.attacks : a.pd = pokemon_details_id}, desc),
         LAMBDA current_attacks :
    Then(AttackLoop(st, pokemon_details_id, as, current_attacks, {}, 1, desc),
         LAMBDA r :
    Then({a.id : a \in {x \in Range(current_attacks) : x.id \notin r.processed}},
         LAMBDA stale :
             \* "Remove old attacks": DELETE FROM card_attacks WHERE id, no more
             Delete(r.st, "attacks", {a \in r.st.attacks : a.id \notin stale},
                    Cardinality(stale)))))

----------------------------------------------------------------------------
(* sync_card_abilities *)

UpdateAbility(st, ability_id, ability) ==
    Update(st, "abilities",
           {IF a.id = ability_id
            THEN [a EXCEPT !.text = ability.text, !.type = ability.type]
            ELSE a : a \in st.abilities}, 1)

RECURSIVE AbilityLoop(_, _, _, _, _, _)
AbilityLoop(st, pd, abs, current, processed, i) ==
    IF i > Len(abs) THEN [st |-> st, processed |-> processed]
    ELSE IF InMap(current, "name", abs[i].name)
         THEN Then(MapGet(current, "name", abs[i].name).id,
                   LAMBDA existing_id :
              Then(UpdateAbility(st, existing_id, abs[i]),
                   LAMBDA st1 :
                       AbilityLoop(st1, pd, abs, current,
                                   processed \cup {existing_id}, i + 1)))
         ELSE Then(Insert(st, "abilities",
                          [id |-> st.next, pd |-> pd, name |-> abs[i].name,
                           text |-> abs[i].text, type |-> abs[i].type]),
                   LAMBDA st1 :
                       AbilityLoop(st1, pd, abs, current,
                                   processed \cup {st.next}, i + 1))

sync_card_abilities(st, pokemon_details_id, abs, desc) ==
    Then(Fetch({a \in st.abilities : a.pd = pokemon_details_id}, desc),
         LAMBDA current :
    Then(AbilityLoop(st, pokemon_details_id, abs, current, {}, 1),
         LAMBDA r :
    Then({a.id : a \in {x \in Range(current) : x.id \notin r.processed}},
         LAMBDA stale :
             Delete(r.st, "abilities", {a \in r.st.abilities : a.id \notin stale},
                    Cardinality(stale)))))

----------------------------------------------------------------------------
(* sync_card_types, sync_card_subtypes: collections keyed by their value *)

RECURSIVE TypeLoop(_, _, _, _, _)
TypeLoop(st, pd, ts, current, i) ==
    IF i > Len(ts) THEN st
    ELSE IF InMap(current, "type", ts[i])
         THEN TypeLoop(st, pd, ts, current, i + 1)
         ELSE Then(Insert(st, "types",
                          [id |-> st.next, pd |-> pd, type |-> ts[i]]),
                   LAMBDA st1 : TypeLoop(st1, pd, ts, current, i + 1))

\* Mutant: the rows of the parent are deleted and the feed's values inserted.
sync_card_types_Rewrite(st, pokemon_details_id, ts, desc) ==
    Then(Delete(st, "types", {t \in st.types : t.pd # pokemon_details_id},
                Cardinality({t \in st.types : t.pd = pokemon_details_id})),
         LAMBDA st1 : TypeLoop(st1, pokemon_details_id, ts, <<>>, 1))

sync_card_types(st, pokemon_details_id, ts, desc) ==
    Then(Fetch({t \in st.types : t.pd = pokemon_details_id}, desc),
         LAMBDA current :
    Then(TypeLoop(st, pokemon_details_id, ts, current, 1),
         LAMBDA st1 :
    \* processed holds every value of the feed
    Then({i \in 1..Len(current) : current[i].type \notin Range(ts)},
         LAMBDA stale :
             \* one DELETE ... WHERE card_pokemon_details_id AND type for
             \* each stale row read
             Delete(st1, "types",
                    {t \in st1.types :
                        ~(t.pd = pokemon_details_id
                          /\ \E i \in stale : current[i].type = t.type)},
                    Cardinality(stale)))))

RECURSIVE SubtypeLoop(_, _, _, _, _)
SubtypeLoop(st, card_id, ss, current, i) ==
    IF i > Len(ss) THEN st
    ELSE IF InMap(current, "subtype", ss[i])
         THEN SubtypeLoop(st, card_id, ss, current, i + 1)
         ELSE Then(Insert(st, "subtypes",
                          [id |-> st.next, card_id |-> card_id, subtype |-> ss[i]]),
                   LAMBDA st1 : SubtypeLoop(st1, card_id, ss, current, i + 1))

sync_card_subtypes(st, card_id, ss, desc) ==
    Then(Fetch({s \in st.subtypes : s.card_id = card_id}, desc),
         LAMBDA current :
    Then(SubtypeLoop(st, card_id, ss, current, 1),
         LAMBDA st1 :
    Then({i \in 1..Len(current) : current[i].subtype \notin Range(ss)},
         LAMBDA stale :
             Delete(st1, "subtypes",
                    {s \in st1.subtypes :
                        ~(s.card_id = card_id
                          /\ \E i \in stale : current[i].subtype = s.subtype)},
                    Cardinality(stale)))))

----------------------------------------------------------------------------
(* sync_card_images: the feed's images are a map, given here as the        *)
(* sequence of its (resolution, url) items, each resolution once           *)

RECURSIVE ImageLoop(_, _, _, _, _)
ImageLoop(st, card_id, imgs, current, i) ==
    IF i > Len(imgs) THEN st
    ELSE IF ~InMap(current, "resolution", imgs[i].resolution)
         THEN Then(Insert(st, "images",
                          [id |-> st.next, card_id |-> card_id,
                           resolution |-> imgs[i].resolution, url |-> imgs[i].url]),
                   LAMBDA st1 : ImageLoop(st1, card_id, imgs, current, i + 1))
         ELSE IF MapGet(current, "resolution", imgs[i].resolution).url # imgs[i].url
         THEN Then(Update(st, "images",
                          {IF r.card_id = card_id /\ r.resolution = imgs[i].resolution
                           THEN [r EXCEPT !.url = imgs[i].url]
                           ELSE r : r \in st.images}, 1),
                   LAMBDA st1 : ImageLoop(st1, card_id, imgs, current, i + 1))
         ELSE ImageLoop(st, card_id, imgs, current, i + 1)

sync_card_images(st, card_id, imgs, desc) ==
    Then(Fetch({r \in st.images : r.card_id = card_id}, desc),
         LAMBDA current : ImageLoop(st, card_id, imgs, current, 1))

----------------------------------------------------------------------------
(* sync_card_rules *)

RECURSIVE RuleLoop(_, _, _, _, _, _)
RuleLoop(st, card_id, rs, current, processed, i) ==
    IF i > Len(rs) THEN [st |-> st, processed |-> processed]
    ELSE IF InMap(current, "text", rs[i])
         THEN Then(processed \cup {MapGet(current, "text", rs[i]).id},
                   LAMBDA p : RuleLoop(st, card_id, rs, current, p, i + 1))
         ELSE Then(Insert(st, "rules",
                          [id |-> st.next, card_id |-> card_id, text |-> rs[i]]),
                   LAMBDA st1 :
                       RuleLoop(st1, card_id, rs, current,
                                processed \cup {st.next}, i + 1))

sync_card_rules(st, card_id, rs, desc) ==
    Then(Fetch({r \in st.rules : r.card_id = card_id}, desc),
         LAMBDA current :
    Then(RuleLoop(st, card_id, rs, current, {}, 1),
         LAMBDA r :
    Then({x.id : x \in {y \in Range(current) : y.id \notin r.processed}},
         LAMBDA stale :
             Delete(r.st, "rules", {x \in r.st.rules : x.id \notin stale},
                    Cardinality(stale)))))

----------------------------------------------------------------------------
(* Cards and their creature details *)

NULL == "NULL"           \* SQL NULL / None in a text column
NoRow == 0               \* fetchone() found no row; ids start at 1

\* SELECT id FROM card_pokemon_details WHERE card_id, then UPDATE or INSERT;
\* the result is the store and the id returned.
update_pokemon_details(st, card_id, pokemon_data, desc) ==
    Then(Fetch({d \in st.details : d.card_id = card_id}, desc),
         LAMBDA found :
             IF Len(found) > 0
             THEN [st |-> Update(st, "details",
                                 {IF d.card_id = card_id
                                  THEN [d EXCEPT
                                          !.weakness_modifier =
                                              pokemon_data.weakness_modifier,
                                          !.weakness_value =
                                              pokemon_data.weakness_value]
                                  ELSE d : d \in st.details}, 1),
                   id |-> found[1].id]
             ELSE [st |-> Insert(st, "details",
                                 [id |-> st.next, card_id |-> card_id,
                                  weakness_modifier |->
                                      pokemon_data.weakness_modifier,
                                  weakness_value |-> pokemon_data.weakness_value]),
                   id |-> st.next])

\* Mutant: the card is never found, so that every import inserts it.
check_card_exists_Never(st, external_id, set_id, desc) == NoRow

\* SELECT id FROM cards WHERE external_id AND set_id; row[0] if row else None
check_card_exists(st, external_id, set_id, desc) ==
    Then(Fetch({c \in st.cards :
                   c.external_id = external_id /\ c.set_id = set_id}, desc),
         LAMBDA found : IF Len(found) > 0 THEN found[1].id ELSE NoRow)

\* UPDATE cards SET ... WHERE id, then the details when pokemon_data is given
update_card(st, card_id, card_data, pokemon_data, desc) ==
    Then(Update(st, "cards",
                {IF c.id = card_id
                 THEN [c EXCEPT !.supertype = card_data.supertype]
                 ELSE c : c \in st.cards}, 1),
         LAMBDA st1 :
             IF pokemon_data.present
             THEN update_pokemon_details(st1, card_id, pokemon_data, desc).st
             ELSE st1)

\* "Insert a single card or update if it already exists"; the result is the
\* store and the id of the returned row.
insert_card(st, card_data, pokemon_data, desc) ==
    Then(check_card_exists(st, card_data.external_id, card_data.set_id, desc),
         LAMBDA found :
    Then(IF found # NoRow THEN found ELSE st.next,
         LAMBDA card_id :
    Then(IF found # NoRow
         THEN update_card(st, found, card_data, pokemon_data, desc)
         ELSE Insert(st, "cards",
                     [id |-> st.next, external_id |-> card_data.external_id,
                      set_id |-> card_data.set_id,
                      supertype |-> card_data.supertype]),
         LAMBDA st1 :
             [st |-> IF pokemon_data.present
                     THEN update_pokemon_details(st1, card_id, pokemon_data, desc).st
                     ELSE st1,
              id |-> card_id])))

----------------------------------------------------------------------------
(* import_cards: one feed file inside one transaction *)

\* The weakness of an item is the raw 'value' of its first weakness, a
\* sequence of characters, empty when the item has none.
WeaknessRaises(item) ==
    item.supertype = Pokemon /\ Len(item.weakness) > 0
        /\ IntRaises(Tail1(item.weakness))

PokemonData(item) ==
    IF item.supertype = Pokemon
    THEN [present |-> TRUE,
          weakness_modifier |->
              IF Len(item.weakness) > 0 THEN item.weakness[1] ELSE NULL,
          weakness_value |->
              IF Len(item.weakness) > 0 THEN <<IntOf(Tail1(item.weakness))>>
              ELSE <<>>]
    ELSE [present |-> FALSE, weakness_modifier |-> NULL, weakness_value |-> <<>>]

\* "Sync Pokemon-specific data only for Pokemon cards" (lines 496-505)
SyncBySupertype(st, card_id, item, pokemon_data, desc) ==
    IF item.supertype = Pokemon
    THEN Then(update_pokemon_details(st, card_id, pokemon_data, desc),
              LAMBDA pd :
         Then(sync_card_attacks(pd.st, pd.id, item.attacks, desc),
              LAMBDA st1 :
         Then(sync_card_abilities(st1, pd.id, item.abilities, desc),
              LAMBDA st2 : sync_card_types(st2, pd.id, item.types, desc))))
    ELSE sync_card_rules(st, card_id, item.rules, desc)

\* The body of "for item in data" on a store without a pending error.
ProcessItem(st, set_id, item, desc) ==
    IF WeaknessRaises(item) THEN [st EXCEPT !.err = TRUE]
    ELSE
    Then(PokemonData(item),
         LAMBDA pokemon_data :
    Then(insert_card(st, [external_id |-> item.id, set_id |-> set_id,
                          supertype |-> item.supertype], pokemon_data, desc),
         LAMBDA ic :
    Then(sync_card_subtypes(ic.st, ic.id, item.subtypes, desc),
         LAMBDA st1 :
    Then(sync_card_images(st1, ic.id, item.images, desc),
         LAMBDA st2 : SyncBySupertype(st2, ic.id, item, pokemon_data, desc)))))

RECURSIVE ItemLoop(_, _, _, _, _)
ItemLoop(st, set_id, items, i, desc) ==
    IF st.err \/ i > Len(items) THEN st
    ELSE Then(ProcessItem(st, set_id, items[i], desc),
              LAMBDA st1 : ItemLoop(st1, set_id, items, i + 1, desc))

\* The store as the transaction finds it.
Begin ==
    [cards |-> cards, details |-> details, attacks |-> attacks, costs |-> costs,
     abilities |-> abilities, types |-> types, subtypes |-> subtypes,
     rules |-> rules, images |-> images, next |-> nextId,
     ins |-> 0, upd |-> 0, del |-> 0, err |-> FALSE]

\* get_set_id_from_filename raises when the set is not in the store.
get_set_id_raises(name) == ~\E s \in sets : s.id = name

\* with engine.begin() as conn: the block's writes, as they stand when it ends
RunFile(file, desc) ==
    IF get_set_id_raises(file.name) THEN [Begin EXCEPT !.err = TRUE]
    ELSE Then(Begin, LAMBDA st : ItemLoop(st, file.name, file.data, 1, desc))

\* Mutant: the connection commits what was written before the error.
Committed_Partial(st, t, before) == st[t]

\* engine.begin() commits when the block ends normally and rolls back when it
\* raises; table t after the transaction that ended as st.
Committed(st, t, before) == IF st.err THEN before ELSE st[t]

----------------------------------------------------------------------------
(* The feed files of the model *)

Atk(name, damage, text, hasCost, cost) ==
    [name |-> name, damage |-> damage, text |-> text, hasCost |-> hasCost,
     cost |-> cost]

Abl(name, text, type) == [name |-> name, text |-> text, type |-> type]

Img(resolution, url) == [resolution |-> resolution, url |-> url]

Item(id, supertype, weakness, as, abs, ts, ss, rs, imgs) ==
    [id |-> id, supertype |-> supertype, weakness |-> weakness, attacks |-> as,
     abilities |-> abs, types |-> ts, subtypes |-> ss, rules |-> rs,
     images |-> imgs]

\* A creature with one attack that has no cost field.
Basic(e) ==
    Item(e, Pokemon, <<"x", "2">>,
         <<Atk("Tackle", "10", "", FALSE, <<>>)>>,
         <<Abl("Shell", "old", "Ability")>>,
         <<"Water">>, <<"Basic">>, <<>>,
         <<Img("small", "u1")>>)

\* The same attack and ability with other values, a cost of twice the same
\* symbol, one more type, no subtype, one more image and a new url.
Evolved(e) ==
    Item(e, Pokemon, <<>>,
         <<Atk("Tackle", "20", "flip", TRUE, <<"Water", "Water">>)>>,
         <<Abl("Shell", "new", "Power")>>,
         <<"Water", "Fire">>, <<>>, <<>>,
         <<Img("small", "u2"), Img("large", "u1")>>)

\* Two other attacks, the second with an empty cost list; no ability, no
\* image.
TwoAttacks(e) ==
    Item(e, Pokemon, <<"x", "2">>,
         <<Atk("Surf", "30", "", TRUE, <<"Water", "Fire">>),
           Atk("Splash", "", "", TRUE, <<>>)>>,
         <<>>, <<"Fire">>, <<"Stage1">>, <<>>, <<>>)

\* A record that lists the same attack, ability, type and subtype twice.
Repeated(e) ==
    Item(e, Pokemon, <<"x", "2">>,
         <<Atk("Tackle", "10", "", TRUE, <<"Water">>),
           Atk("Tackle", "20", "flip", TRUE, <<"Fire">>)>>,
         <<Abl("Shell", "old", "Ability"), Abl("Shell", "new", "Power")>>,
         <<"Water", "Water">>, <<"Basic", "Basic">>, <<>>,
         <<Img("small", "u1")>>)

\* A creature with two attacks: the first with an empty cost list, the second
\* with two energy costs.
FreeThenPaid(e) ==
    Item(e, Pokemon, <<>>,
         <<Atk("Splash", "", "", TRUE, <<>>),
           Atk("Surf", "30", "", TRUE, <<"Water", "Fire">>)>>,
         <<>>, <<"Water">>, <<"Basic">>, <<>>, <<>>)

\* Non-creature records, with rules.
Potion(e) ==
    Item(e, Trainer, <<>>, <<>>, <<>>, <<>>, <<"Item">>, <<"Heal">>,
         <<Img("small", "u1")>>)

Switch(e) ==
    Item(e, Trainer, <<>>, <<>>, <<>>, <<>>, <<>>, <<"Swap", "Swap">>, <<>>)

\* A creature whose weakness value has no number after its modifier.
Malformed(e) == [Basic(e) EXCEPT !.weakness = <<"x", "?">>]

File(name, data) == [name |-> name, data |-> data]

Files ==
    {File("s1", <<Basic("e1")>>), File("s1", <<Evolved("e1")>>),
     File("s1", <<TwoAttacks("e1")>>), File("s1", <<Repeated("e1")>>),
     File("s1", <<FreeThenPaid("e1")>>),
     File("s1", <<Potion("e1")>>), File("s1", <<Switch("e1")>>),
     File("s1", <<Malformed("e1")>>),
     File("s1", <<Basic("e1"), Evolved("e2")>>),
     File("s1", <<Evolved("e2"), Malformed("e1")>>),
     File("s1", <<Evolved("e1"), Basic("e1")>>),
     File("s2", <<Basic("e1")>>),
     File("nope", <<Basic("e1")>>)}

NoFile == File("", <<>>)

----------------------------------------------------------------------------
(* Price import: src/src/import_prices.py, and the variant the repository *)
(* keeps at src/import_prices.py (called legacy below)                    *)

None == <<>>             \* None / SQL NULL of a price; a price n is <<n>>

NEAR_MINT == "NEAR_MINT"

\* The rows of card_price for one (card, finish, condition).  The upsert names
\* the constraint card_price_card_id_finish_condition_key as its conflict
\* target, which is the table's unique constraint on these three columns.
ExistingPrice(st, card_id, finish, condition) ==
    {r \in st.card_price :
        r.card_id = card_id /\ r.finish = finish /\ r.condition = condition}

\* Mutant: the history of the triple is replaced by the new entry.
ArchiveOld_Replacing(st, card_id, finish, condition, existing) ==
    Insert([st EXCEPT !.card_price_history =
                {h \in @ : ~(h.card_id = card_id /\ h.finish = finish
                             /\ h.condition = condition)}],
           "card_price_history",
           [id |-> st.next, card_id |-> card_id, finish |-> finish,
            condition |-> condition, price |-> existing.price,
            timestamp |-> existing.updated_at])

\* INSERT INTO card_price_history (...) VALUES (..., old_price,
\* existing_timestamp) (lines 39-61)
ArchiveOld(st, card_id, finish, condition, existing) ==
    Insert(st, "card_price_history",
           [id |-> st.next, card_id |-> card_id, finish |-> finish,
            condition |-> condition, price |-> existing.price,
            timestamp |-> existing.updated_at])

\* Mutant: the incoming price is archived whenever the timestamp differs.
ArchiveIfDue_Incoming(st, card_id, new, finish, condition, updated_at) ==
    Then(ExistingPrice(st, card_id, finish, condition),
         LAMBDA found :
             IF found # {} /\ (CHOOSE r \in found : TRUE).updated_at # updated_at
                /\ new # None
             THEN ArchiveOld(st, card_id, finish, condition,
                             [price |-> new, updated_at |-> updated_at])
             ELSE st)

\* Mutant: the previous price is archived whatever the two timestamps are.
ArchiveIfDue_AnyDay(st, card_id, new, finish, condition, updated_at) ==
    Then(ExistingPrice(st, card_id, finish, condition),
         LAMBDA found :
             IF found # {} /\ (CHOOSE r \in found : TRUE).price # None
             THEN ArchiveOld(st, card_id, finish, condition,
                             CHOOSE r \in found : TRUE)
             ELSE st)

\* Mutant: a previous price of NULL is archived as well.
ArchiveIfDue_NullToo(st, card_id, new, finish, condition, updated_at) ==
    Then(ExistingPrice(st, card_id, finish, condition),
         LAMBDA found :
             IF found # {} /\ (CHOOSE r \in found : TRUE).updated_at # updated_at
             THEN ArchiveOld(st, card_id, finish, condition,
                             CHOOSE r \in found : TRUE)
             ELSE st)

\* if existing_price_data: if existing_timestamp != updated_at and old_price
\* is not None: ... (lines 34-61); new is not read here.
ArchiveIfDue(st, card_id, new, finish, condition, updated_at) ==
    Then(ExistingPrice(st, card_id, finish, condition),
         LAMBDA found :
             IF found # {}
             THEN Then(CHOOSE r \in found : TRUE,
                       LAMBDA existing :
                           IF existing.updated_at # updated_at
                              /\ existing.price # None
                           THEN ArchiveOld(st, card_id, finish, condition,
                                           existing)
                           ELSE st)
             ELSE st)

\* new_price = price_data.get('market'), then mid, low, high, directLow while
\* it is None (lines 84-92)
SelectPrice(price_data) ==
    IF price_data.market # None THEN price_data.market
    ELSE IF price_data.mid # None THEN price_data.mid
    ELSE IF price_data.low # None THEN price_data.low
    ELSE IF price_data.high # None THEN price_data.high
    ELSE price_data.directLow

\* Mutant: the conflict overwrites the rows of all finishes of the card.
UpsertPrice_AllFinishes(st, card_id, finish, condition, updated_at, new_price) ==
    IF ExistingPrice(st, card_id, finish, condition) # {}
    THEN Update(st, "card_price",
                {IF r.card_id = card_id
                 THEN [r EXCEPT !.price = new_price, !.updated_at = updated_at]
                 ELSE r : r \in st.card_price}, 1)
    ELSE Insert(st, "card_price",
                [id |-> st.next, card_id |-> card_id, finish |-> finish,
                 condition |-> condition, updated_at |-> updated_at,
                 price |-> new_price])

\* Mutant: a plain INSERT, without the conflict target.
UpsertPrice_InsertOnly(st, card_id, finish, condition, updated_at, new_price) ==
    Insert(st, "card_price",
           [id |-> st.next, card_id |-> card_id, finish |-> finish,
            condition |-> condition, updated_at |-> updated_at,
            price |-> new_price])

\* INSERT INTO card_price ... ON CONFLICT ON CONSTRAINT ... DO UPDATE SET
\* price, updated_at (lines 64-83, 94-100)
UpsertPrice(st, card_id, finish, condition, updated_at, new_price) ==
    IF ExistingPrice(st, card_id, finish, condition) # {}
    THEN Update(st, "card_price",
                {IF r.card_id = card_id /\ r.finish = finish
                    /\ r.condition = condition
                 THEN [r EXCEPT !.price = new_price, !.updated_at = updated_at]
                 ELSE r : r \in st.card_price}, 1)
    ELSE Insert(st, "card_price",
                [id |-> st.next, card_id |-> card_id, finish |-> finish,
                 condition |-> condition, updated_at |-> updated_at,
                 price |-> new_price])

\* The call is added to the calls the transaction has made.
Called(st, card_id, finish, condition, updated_at, new_price) ==
    [st EXCEPT !.calls = @ \cup {[card_id |-> card_id, finish |-> finish,
                                  condition |-> condition, price |-> new_price,
                                  at |-> updated_at]}]

\* insert_price_data of src/src/import_prices.py.  v is the value of the
\* finish's key in 'prices': a dict of quotes (kind "dict", quotes q) or null
\* (kind "null"), on which price_data.get raises after the history INSERT.
insert_price_data(st, card_id, v, finish, condition, updated_at) ==
    Then(ArchiveIfDue(st, card_id,
                      IF v.kind = "dict" THEN SelectPrice(v.q) ELSE None,
                      finish, condition, updated_at),
         LAMBDA st1 :
             IF v.kind # "dict" THEN [st1 EXCEPT !.err = TRUE]
             ELSE Then(SelectPrice(v.q),
                       LAMBDA new_price :
                  Then(UpsertPrice(st1, card_id, finish, condition, updated_at,
                                   new_price),
                       LAMBDA st2 :
                           Called(st2, card_id, finish, condition, updated_at,
                                  new_price))))

\* Mutant: the legacy variant archives the row's previous price and timestamp.
legacy_insert_price_data_Previous(st, card_id, v, finish, updated_at) ==
    IF v.kind # "dict" THEN [st EXCEPT !.err = TRUE]
    ELSE
    Then(ExistingPrice(st, card_id, finish, NEAR_MINT),
         LAMBDA found :
    Then(v.q.market,
         LAMBDA new_price :
    Then(IF found # {} /\ (CHOOSE r \in found : TRUE).updated_at # updated_at
            /\ new_price # None
         THEN Insert(st, "card_price_history",
                     [id |-> st.next,
                      card_price_id |-> (CHOOSE r \in found : TRUE).id,
                      price |-> (CHOOSE r \in found : TRUE).price,
                      timestamp |-> (CHOOSE r \in found : TRUE).updated_at])
         ELSE st,
         LAMBDA st1 :
    Then(UpsertPrice(st1, card_id, finish, NEAR_MINT, updated_at, new_price),
         LAMBDA st2 :
             Called(st2, card_id, finish, NEAR_MINT, updated_at, new_price)))))

\* insert_price_data of src/import_prices.py: the price is the market quote,
\* the history entry references the current row by its id and carries the
\* incoming price and timestamp; the condition is always NEAR_MINT.
legacy_insert_price_data(st, card_id, v, finish, updated_at) ==
    IF v.kind # "dict" THEN [st EXCEPT !.err = TRUE]
    ELSE
    Then(ExistingPrice(st, card_id, finish, NEAR_MINT),
         LAMBDA found :
    Then(v.q.market,
         LAMBDA new_price :
    Then(IF found # {} /\ (CHOOSE r \in found : TRUE).updated_at # updated_at
            /\ new_price # None
         THEN Insert(st, "card_price_history",
                     [id |-> st.next,
                      card_price_id |-> (CHOOSE r \in found : TRUE).id,
                      price |-> new_price, timestamp |-> updated_at])
         ELSE st,
         LAMBDA st1 :
    Then(UpsertPrice(st1, card_id, finish, NEAR_MINT, updated_at, new_price),
         LAMBDA st2 :
             Called(st2, card_id, finish, NEAR_MINT, updated_at, new_price)))))

\* The keys of 'prices' that process_card_prices reads, in its order, with the
\* finish each is stored under.
Finishes ==
    <<[key |-> "normal", finish |-> "NORMAL"],
      [key |-> "holofoil", finish |-> "HOLOFOIL"],
      [key |-> "reverseHolofoil", finish |-> "REVERSE_HOLO"]>>

\* if 'normal' in prices: insert_price_data(...) and so on (lines 141-149)
RECURSIVE FinishLoop(_, _, _, _, _, _)
FinishLoop(st, card_id, prices, updated_at, legacy, i) ==
    IF st.err \/ i > Len(Finishes) THEN st
    ELSE IF prices[Finishes[i].key].kind = "absent"
         THEN FinishLoop(st, card_id, prices, updated_at, legacy, i + 1)
         ELSE Then(IF legacy
                   THEN legacy_insert_price_data(st, card_id,
                            prices[Finishes[i].key], Finishes[i].finish,
                            updated_at)
                   ELSE insert_price_data(st, card_id, prices[Finishes[i].key],
                            Finishes[i].finish, NEAR_MINT, updated_at),
                   LAMBDA st1 :
                       FinishLoop(st1, card_id, prices, updated_at, legacy,
                                  i + 1))

\* Mutant: a card that is not found is an error.
CardNotFound_Raises(st) == [st EXCEPT !.err = TRUE]

\* if not card_row: logging.warning(...); return (lines 117-119)
CardNotFound(st) == st

\* SELECT id FROM cards WHERE external_id; fetchone() (lines 112-116)
FindCard(external_id, desc) ==
    Then(Fetch({c \in cards : c.external_id = external_id}, desc),
         LAMBDA found : IF Len(found) > 0 THEN found[1].id ELSE NoRow)

\* The body of "with engine.begin() as conn" of process_card_prices, on the
\* store st.  The legacy variant takes updated_at from the card's
\* tcgplayer.updatedAt (day 0: the key is missing, which raises) and the
\* current one from the clock.
process_card_prices(st, card_data, card_id, legacy) ==
    IF card_id = NoRow THEN CardNotFound(st)
    ELSE IF legacy
    THEN IF ~card_data.tcgplayer \/ card_data.updatedAt = 0
         THEN [st EXCEPT !.err = TRUE]
         ELSE FinishLoop(st, card_id, card_data.prices, card_data.updatedAt,
                         TRUE, 1)
    ELSE IF ~card_data.tcgplayer THEN st
         ELSE FinishLoop(st, card_id, card_data.prices, today, FALSE, 1)

\* The price tables as a transaction finds them.
BeginPrices ==
    [card_price |-> card_price, card_price_history |-> card_price_history,
     next |-> nextId, ins |-> 0, upd |-> 0, del |-> 0, err |-> FALSE,
     calls |-> {}]

----------------------------------------------------------------------------
(* The price feed of the model *)

Q(market, mid, low, high, directLow) ==
    [market |-> market, mid |-> mid, low |-> low, high |-> high,
     directLow |-> directLow]

NoQuotes == Q(None, None, None, None, None)
Market(n) == Q(<<n>>, None, None, None, None)

\* The value of one key of 'prices': the key is missing, null, or a dict.
Absent == [kind |-> "absent", q |-> NoQuotes]
NullValue == [kind |-> "null", q |-> NoQuotes]
Dict(q) == [kind |-> "dict", q |-> q]

\* One card of the feed: its id, whether it has 'tcgplayer' data, the day of
\* tcgplayer.updatedAt and the three keys of tcgplayer.prices.
PCard(id, tcgplayer, updatedAt, normal, holofoil, reverseHolofoil) ==
    [id |-> id, tcgplayer |-> tcgplayer, updatedAt |-> updatedAt,
     prices |-> [normal |-> normal, holofoil |-> holofoil,
                 reverseHolofoil |-> reverseHolofoil]]

NoCard == PCard("", FALSE, 0, Absent, Absent, Absent)

Normal(e, q) == PCard(e, TRUE, 1, Dict(q), Absent, Absent)

\* Two finishes of one card.
NormalAndHolo(e) == PCard(e, TRUE, 1, Dict(Market(5)), Dict(Market(7)), Absent)

\* The second finish of the card is null in the feed.
HoloNull(e) == PCard(e, TRUE, 1, Dict(Market(7)), NullValue, Absent)

\* Only the last of the five quotes, for the third finish.
ReverseDirectLow(e) ==
    PCard(e, TRUE, 1, Absent, Absent, Dict(Q(None, None, None, None, <<5>>)))

\* A card without price source.
NoTcgplayer(e) == PCard(e, FALSE, 0, Absent, Absent, Absent)

PriceCards ==
    {Normal("e1", Market(5)), Normal("e1", Market(7)), Normal("e1", NoQuotes),
     Normal("e1", Q(None, <<5>>, <<7>>, None, None)),
     NormalAndHolo("e1"), HoloNull("e1"), NoTcgplayer("e1"),
     ReverseDirectLow("e2"), Normal("e9", Market(5))}

\* One response of the API: the request fails (network error, non-2xx), or it
\* carries the page's cards and the total count.
Page(cards_, totalCount) ==
    [fails |-> FALSE, data |-> cards_, totalCount |-> totalCount]
FailedPage == [fails |-> TRUE, data |-> <<>>, totalCount |-> 0]

\* What the API answers to page 1, 2, ... of one import.
Apis ==
    {<<Page(<<c>>, 1)>> : c \in PriceCards}
    \cup {<<Page(<<Normal("e9", Market(5))>>, 2),
            Page(<<Normal("e1", Market(7))>>, 2)>>,
          <<Page(<<HoloNull("e1"), ReverseDirectLow("e2")>>, 2)>>,
          <<Page(<<ReverseDirectLow("e2"), HoloNull("e1")>>, 2)>>,
          <<Page(<<Normal("e1", Market(5))>>, 0),
            Page(<<Normal("e1", Market(7))>>, 0)>>,
          <<Page(<<>>, 0)>>,
          <<FailedPage>>,
          <<Page(<<Normal("e1", Market(5))>>, 2), FailedPage>>}

\* Mutant: a request that fails ends the fetch with the cards of the pages
\* before it.
RECURSIVE PageLoop_Partial(_, _, _)
PageLoop_Partial(api, page, fetched) ==
    IF page > Len(api) THEN [err |-> FALSE, cards |-> fetched]
    ELSE IF api[page].fails THEN [err |-> FALSE, cards |-> fetched]
    ELSE Then(fetched \o api[page].data,
              LAMBDA all :
                  IF Len(all) >= api[page].totalCount \/ api[page].data = <<>>
                  THEN [err |-> FALSE, cards |-> all]
                  ELSE PageLoop_Partial(api, page + 1, all))

\* while True: ... (lines 163-187): the cards fetched, or the error raised.
\* A page after the last one of api is answered with no cards.
RECURSIVE PageLoop(_, _, _)
PageLoop(api, page, fetched) ==
    IF page > Len(api) THEN [err |-> FALSE, cards |-> fetched]
    ELSE IF api[page].fails THEN [err |-> TRUE, cards |-> <<>>]
    ELSE Then(fetched \o api[page].data,
              LAMBDA all :
                  IF Len(all) >= api[page].totalCount \/ api[page].data = <<>>
                  THEN [err |-> FALSE, cards |-> all]
                  ELSE PageLoop(api, page + 1, all))

----------------------------------------------------------------------------
(* The state machine *)

\* The exit code of python import_cards.py <path>: sys.exit(1) when
\* import_cards raises (lines 523-543), 0 at the end of the script.
import_cards_main(raised) == IF raised THEN 1 ELSE 0

\* The exit code of python import_prices.py <api_url>: sys.exit(1) when
\* import_prices_from_api raises (lines 212-216), 0 at the end of the script.
import_prices_main(raised) == IF raised THEN 1 ELSE 0

\* The exit code of python import_sets.py: the error import_card_sets raises
\* is logged (lines 200-204) and the script ends.
import_sets_main(raised) == 0

Exit(script, raised, code) ==
    [script |-> script, raised |-> raised, code |-> code]

\* No command-line process has ended.
NoExit == Exit("", FALSE, 0)

\* Neither function has been called.
NoPureCall == [fn |-> "", args |-> <<>>, result |-> ""]

\* run_imports has not been called.
RunIdle ==
    /\ max_workers = 0 /\ futures = <<>> /\ completed = 0 /\ successful = 0
    /\ workers = <<>>

\* No price import has run.
NoCall == [card |-> NoCard, card_id |-> NoRow, at |-> 0, ok |-> FALSE,
           calls |-> {}]

PriceIdle ==
    /\ card_price = {} /\ card_price_history = {}
    /\ today = 1
    /\ all_cards = <<>> /\ cursor = 1 /\ pc = "idle" /\ price_imports = 0
    /\ plast = NoCall /\ lastCall = {}

Init ==
    /\ PriceIdle /\ RunIdle /\ exited = NoExit /\ call = NoPureCall
    /\ cards = {} /\ details = {} /\ attacks = {} /\ costs = {}
    /\ abilities = {} /\ types = {} /\ subtypes = {} /\ rules = {}
    /\ images = {}
    /\ sets = {[id |-> "s1", series |-> "SWORD_AND_SHIELD",
                release_date |-> <<2020, 2, 7>>, printed_total |-> 202],
               [id |-> "s2", series |-> "BASE",
                release_date |-> <<1999, 1, 9>>, printed_total |-> 102]}
    /\ nextId = 1
    /\ imports = 0
    /\ last = [file |-> NoFile, ok |-> FALSE, again |-> FALSE, from |-> 1,
               ins |-> 0, upd |-> 0, del |-> 0]

\* import_cards(file_path) on the file named file.name holding file.data
ImportCards(file, desc) ==
    /\ imports < MaxImports
    /\ \E st \in {RunFile(file, desc)} :
           /\ cards' = Committed(st, "cards", cards)
           /\ details' = Committed(st, "details", details)
           /\ attacks' = Committed(st, "attacks", attacks)
           /\ costs' = Committed(st, "costs", costs)
           /\ abilities' = Committed(st, "abilities", abilities)
           /\ types' = Committed(st, "types", types)
           /\ subtypes' = Committed(st, "subtypes", subtypes)
           /\ rules' = Committed(st, "rules", rules)
           /\ images' = Committed(st, "images", images)
           /\ nextId' = st.next    \* a sequence does not roll back
           /\ last' = [file |-> file, ok |-> ~st.err,
                       again |-> last.ok /\ last.file = file,
                       from |-> nextId,
                       ins |-> st.ins, upd |-> st.upd, del |-> st.del]
           /\ exited' = Exit("import_cards", st.err, import_cards_main(st.err))
    /\ imports' = imports + 1
    /\ UNCHANGED <<sets, pricevars, runvars, call>>

Next == \E file \in Files, desc \in BOOLEAN : ImportCards(file, desc)

Spec == Init /\ [][Next]_vars

----------------------------------------------------------------------------
(* What the store holds for the records of the last imported file *)

data == last.file.data

\* The record at i is the last one of its card in the file.
Final(i) == \A j \in (i + 1)..Len(data) : data[j].id # data[i].id

\* (record, card row) pairs the last import reconciled last.
Reconciled ==
    {p \in (1..Len(data)) \X cards :
        /\ last.ok /\ Final(p[1])
        /\ p[2].external_id = data[p[1]].id /\ p[2].set_id = last.file.name}

DetailsOf(c) == {d \in details : d.card_id = c.id}
AttacksOf(c) == {a \in attacks : \E d \in DetailsOf(c) : a.pd = d.id}
AbilitiesOf(c) == {a \in abilities : \E d \in DetailsOf(c) : a.pd = d.id}
TypesOf(c) == {t \in types : \E d \in DetailsOf(c) : t.pd = d.id}
SubtypesOf(c) == {x \in subtypes : x.card_id = c.id}
RulesOf(c) == {r \in rules : r.card_id = c.id}
ImagesOf(c) == {r \in images : r.card_id = c.id}
CostsOf(a) == {k \in costs : k.attack_id = a.id}

Field(s, f) == {s[i][f] : i \in 1..Len(s)}
Count(s, x) == Cardinality({i \in 1..Len(s) : s[i] = x})
Once(s, f, k) == Cardinality({i \in 1..Len(s) : s[i][f] = k}) = 1
LastOf(s, f, k) == s[Max({i \in 1..Len(s) : s[i][f] = k})]

\* The row was in the store before the last import started.
Older(r) == r.id < last.from

----------------------------------------------------------------------------
(* Claims about the reconciliation of a card's nested collections *)

KeysOfAttacks(c, item) ==
    {a.name : a \in AttacksOf(c)} = Field(item.attacks, "name")
KeysOfCosts(c, item) ==
    \A a \in AttacksOf(c) :
        (\E i \in 1..Len(item.attacks) : item.attacks[i].name = a.name)
        /\ Once(item.attacks, "name", a.name)
            => {k.cost : k \in CostsOf(a)}
                   = Range(AttackCosts(LastOf(item.attacks, "name", a.name)))
KeysOfAbilities(c, item) ==
    {a.name : a \in AbilitiesOf(c)} = Field(item.abilities, "name")
KeysOfTypes(c, item) == {t.type : t \in TypesOf(c)} = Range(item.types)
KeysOfSubtypes(c, item) == {x.subtype : x \in SubtypesOf(c)} = Range(item.subtypes)
KeysOfRules(c, item) == {r.text : r \in RulesOf(c)} = Range(item.rules)
KeysOfImages(c, item) ==
    {r.resolution : r \in ImagesOf(c)} = Field(item.images, "resolution")

\* C1: after a successful import of a card record, each nested collection of
\* the card holds exactly the natural keys of the record: attacks, the costs
\* of each attack, abilities, types, subtypes, rules and images.
C1_StrictConvergence ==
    \A p \in Reconciled :
        LET item == data[p[1]]
            c == p[2]
        IN  /\ KeysOfAttacks(c, item) /\ KeysOfCosts(c, item)
            /\ KeysOfAbilities(c, item) /\ KeysOfTypes(c, item)
            /\ KeysOfSubtypes(c, item) /\ KeysOfRules(c, item)
            /\ KeysOfImages(c, item)

\* C2: an import that repeats the file of the successful import right before
\* it executes no INSERT, no UPDATE and no DELETE.
C2_SecondImportWritesNothing ==
    last.ok /\ last.again => last.ins + last.upd + last.del = 0

\* C3: every attack-cost row references an attack row of the store.
C3_NoOrphanedCosts ==
    \A k \in costs : \E a \in attacks : a.id = k.attack_id

\* C4: after the first import into the empty store and after a repeated
\* import of the same record, the cost rows of each attack are, symbol by
\* symbol, as many as the attack's cost list in the record has.
C4_CostsAreAMultiset ==
    imports = 1 \/ last.again =>
        \A p \in Reconciled :
            LET item == data[p[1]]
            IN  \A a \in AttacksOf(p[2]) :
                    \A i \in 1..Len(item.attacks) :
                        LET attack == item.attacks[i]
                        IN  attack.name = a.name /\ attack.hasCost
                            /\ Once(item.attacks, "name", a.name)
                            => \A x \in Range(attack.cost) \cup {k.cost : k \in CostsOf(a)} :
                                   Cardinality({k \in CostsOf(a) : k.cost = x})
                                       = Count(attack.cost, x)

Unique(R, parent, key) ==
    \A r \in R, q \in R : r[parent] = q[parent] /\ r[key] = q[key] => r = q

\* C5: within one parent no two attacks share a name, no two abilities a
\* name, no two types or subtypes a value, no two rules a text and no two
\* images a resolution.
C5_NaturalKeysUnique ==
    /\ Unique(attacks, "pd", "name") /\ Unique(abilities, "pd", "name")
    /\ Unique(types, "pd", "type") /\ Unique(subtypes, "card_id", "subtype")
    /\ Unique(rules, "card_id", "text")
    /\ Unique(images, "card_id", "resolution")

\* C6: after a successful import, a row of the card that was in the store
\* before the import and whose natural key is in the record carries the
\* record's values: damage and text of an attack, text and type of an
\* ability, url of an image (the record's last entry for the key).  Attacks
\* and abilities are reconciled for creature records, images for all.
C6_ValuesMatchFeed ==
    \A p \in Reconciled :
        LET item == data[p[1]]
            c == p[2]
        IN  /\ \A a \in AttacksOf(c) :
                   /\ item.supertype = Pokemon /\ Older(a)
                   /\ a.name \in Field(item.attacks, "name")
                   => LET e == LastOf(item.attacks, "name", a.name)
                      IN  a.damage = e.damage /\ a.text = e.text
            /\ \A a \in AbilitiesOf(c) :
                   /\ item.supertype = Pokemon /\ Older(a)
                   /\ a.name \in Field(item.abilities, "name")
                   => LET e == LastOf(item.abilities, "name", a.name)
                      IN  a.text = e.text /\ a.type = e.type
            /\ \A r \in ImagesOf(c) :
                   Older(r) /\ r.resolution \in Field(item.images, "resolution")
                   => r.url = LastOf(item.images, "resolution", r.resolution).url

\* The second import replaced the values of an attack, an ability and an
\* image that the first import had stored.
C6_Witness ==
    /\ imports = 2 /\ last.file = File("s1", <<Evolved("e1")>>)
    /\ \E p \in Reconciled :
          /\ \E a \in AttacksOf(p[2]) : Older(a) /\ a.damage = "20" /\ a.text = "flip"
          /\ \E a \in AbilitiesOf(p[2]) : Older(a) /\ a.text = "new" /\ a.type = "Power"
          /\ \E r \in ImagesOf(p[2]) : Older(r) /\ r.url = "u2"

\* C7: an import that fails leaves every table as it was before the file.
C7_AllOrNothing ==
    [][imports' = imports + 1 /\ ~last'.ok => tables' = tables]_vars

\* A file failed on a later card after statements for an earlier card had
\* been executed, on a store that already held cards.
C7_Witness ==
    /\ ~last.ok /\ last.ins > 0 /\ cards # {}
    /\ Len(data) > 1 /\ WeaknessRaises(data[Len(data)])

CardRows(external_id, set_id) ==
    {c \in cards : c.external_id = external_id /\ c.set_id = set_id}

\* C8: at most one card row per (external id, set id); after a successful
\* import every record of the file has exactly one card row.
C8_UpdateInPlace ==
    /\ \A c \in cards : CardRows(c.external_id, c.set_id) = {c}
    /\ last.ok =>
           \A i \in 1..Len(data) :
               Cardinality(CardRows(data[i].id, last.file.name)) = 1

\* A record was imported onto the card row an earlier import had made, while
\* another set holds a card with the same external id.
C8_Witness ==
    \E p \in Reconciled :
        /\ Older(p[2]) /\ last.upd > 0
        /\ \E c \in cards :
               c.external_id = p[2].external_id /\ c.set_id # p[2].set_id

\* C9: a card has at most one creature-details row, and has one only if its
\* stored supertype is the creature supertype.
C9_DetailsOnlyForCreatures ==
    \A c \in cards :
        /\ Cardinality(DetailsOf(c)) <= 1
        /\ DetailsOf(c) # {} => c.supertype = Pokemon

\* C10: after a successful import, an attack whose record has no cost field
\* is stored with exactly one cost row, and that row carries FREE.
C10_NoCostFieldIsFree ==
    \A p \in Reconciled :
        LET item == data[p[1]]
        IN  item.supertype = Pokemon =>
            \A i \in 1..Len(item.attacks) :
                LET attack == item.attacks[i]
                    rows == {a \in AttacksOf(p[2]) : a.name = attack.name}
                IN  ~attack.hasCost /\ Once(item.attacks, "name", attack.name)
                    => /\ rows # {}
                       /\ \A a \in rows :
                              /\ Cardinality(CostsOf(a)) = 1
                              /\ \A k \in CostsOf(a) : k.cost = FREE

\* An attack that was stored with other costs got the sentinel row when a
\* record without a cost field was imported.
C10_Witness ==
    \E p \in Reconciled :
        \E a \in AttacksOf(p[2]) :
            /\ Older(a) /\ last.del > 0
            /\ \E i \in 1..Len(data[p[1]].attacks) :
                   /\ data[p[1]].attacks[i].name = a.name
                   /\ ~data[p[1]].attacks[i].hasCost
            /\ \E k \in CostsOf(a) : ~Older(k) /\ k.cost = FREE

----------------------------------------------------------------------------
(* The end-to-end scenario of an attack with an empty cost list *)

\* The attack rows of card row c that carry the name of the record's attack.
AttackRows(c, attack) == {a \in AttacksOf(c) : a.name = attack.name}

\* C11: after the import into the empty store of a creature record with two
\* attacks, the first with an empty cost list and the second with two energy
\* costs, the first attack has exactly one cost row, which carries FREE, and
\* the second attack has exactly two cost rows.
C11_EmptyCostListIsFree ==
    imports = 1 =>
        \A p \in Reconciled :
            LET item == data[p[1]]
            IN  /\ item.supertype = Pokemon /\ Len(item.attacks) = 2
                /\ item.attacks[1].hasCost /\ item.attacks[1].cost = <<>>
                /\ item.attacks[2].hasCost /\ Len(item.attacks[2].cost) = 2
                /\ item.attacks[1].name # item.attacks[2].name
                => /\ \A a \in AttackRows(p[2], item.attacks[1]) :
                          /\ Cardinality(CostsOf(a)) = 1
                          /\ \A k \in CostsOf(a) : k.cost = FREE
                   /\ \A a \in AttackRows(p[2], item.attacks[2]) :
                          Cardinality(CostsOf(a)) = 2

----------------------------------------------------------------------------
(* The price import as a state machine: import_prices_from_api fetches every *)
(* page and then processes the cards one by one, each in a transaction of    *)
(* its own, while the clock runs.                                            *)

\* Number of days the clock of the model covers.
MaxDay == 3

\* Number of import_prices_from_api runs explored.
MaxPriceImports == 3

\* The catalogue before the price import: two cards of set s1, as a card
\* import of two records without nested data leaves them.
PriceCatalogue ==
    /\ cards = {[id |-> 1, external_id |-> "e1", set_id |-> "s1",
                 supertype |-> Trainer],
                [id |-> 2, external_id |-> "e2", set_id |-> "s1",
                 supertype |-> Trainer]}
    /\ details = {} /\ attacks = {} /\ costs = {} /\ abilities = {}
    /\ types = {} /\ subtypes = {} /\ rules = {} /\ images = {}
    /\ sets = {[id |-> "s1", series |-> "SWORD_AND_SHIELD",
                release_date |-> <<2020, 2, 7>>, printed_total |-> 202],
               [id |-> "s2", series |-> "BASE",
                release_date |-> <<1999, 1, 9>>, printed_total |-> 102]}
    /\ nextId = 3
    /\ imports = 1
    /\ last = [file |-> File("s1", <<>>), ok |-> TRUE, again |-> FALSE,
               from |-> 1, ins |-> 2, upd |-> 0, del |-> 0]

PriceInit ==
    /\ PriceIdle /\ PriceCatalogue /\ RunIdle
    /\ exited = NoExit /\ call = NoPureCall

\* The calls of the set old, with those of the same triple as a call of new
\* replaced by it.
LatestCalls(old, new) ==
    {c \in old : ~\E d \in new : d.card_id = c.card_id /\ d.finish = c.finish
                                    /\ d.condition = c.condition} \cup new

\* import_prices_from_api up to its loop over the cards (lines 159-189): it
\* raises when a request fails, before any card is processed.
FetchPages(api) ==
    /\ pc = "idle" /\ price_imports < MaxPriceImports
    /\ price_imports' = price_imports + 1
    /\ \E r \in {PageLoop(api, 1, <<>>)} :
           /\ all_cards' = r.cards
           /\ pc' = IF r.err \/ r.cards = <<>> THEN "idle" ELSE "processing"
           /\ exited' = IF r.err \/ r.cards = <<>>
                         THEN Exit("import_prices", r.err,
                                   import_prices_main(r.err))
                         ELSE exited
    /\ cursor' = 1
    /\ UNCHANGED <<cardvars, card_price, card_price_history, today, plast,
                   lastCall, runvars, call>>

\* One turn of "for card in all_cards: process_card_prices(card)" (lines
\* 192-193, 105-155): a transaction that commits when the function returns
\* and rolls back when it raises, which ends the import.
ProcessNext(legacy, desc) ==
    /\ pc = "processing"
    /\ \E card_id \in {FindCard(all_cards[cursor].id, desc)} :
       \E st \in {process_card_prices(BeginPrices, all_cards[cursor], card_id,
                                      legacy)} :
           /\ card_price' = Committed(st, "card_price", card_price)
           /\ card_price_history' =
                  Committed(st, "card_price_history", card_price_history)
           /\ nextId' = st.next
           /\ plast' = [card |-> all_cards[cursor], card_id |-> card_id,
                        at |-> today, ok |-> ~st.err,
                        calls |-> IF st.err THEN {} ELSE st.calls]
           /\ lastCall' = LatestCalls(lastCall, plast.calls)
           /\ cursor' = IF st.err THEN cursor ELSE cursor + 1
           /\ pc' = IF st.err \/ cursor = Len(all_cards) THEN "idle"
                    ELSE "processing"
           /\ exited' = IF st.err \/ cursor = Len(all_cards)
                         THEN Exit("import_prices", st.err,
                                   import_prices_main(st.err))
                         ELSE exited
    /\ UNCHANGED <<cards, details, attacks, costs, abilities, types, subtypes,
                   rules, images, sets, imports, last, today, all_cards,
                   price_imports, runvars, call>>

\* The day ends: datetime.now() moves to the next date.
Midnight ==
    /\ today < MaxDay
    /\ today' = today + 1
    /\ UNCHANGED <<cardvars, card_price, card_price_history, all_cards, cursor,
                   pc, price_imports, plast, lastCall, runvars, exited, call>>

PriceNext ==
    \/ \E api \in Apis : FetchPages(api)
    \/ \E desc \in BOOLEAN : ProcessNext(FALSE, desc)
    \/ Midnight

\* python import_prices.py <api_url> of src/src, run again and again
PriceSpec == PriceInit /\ [][PriceNext]_vars

----------------------------------------------------------------------------
(* What the price tables hold for one (card, finish, condition) *)

CurrentOf(c) ==
    {r \in card_price : r.card_id = c.card_id /\ r.finish = c.finish
                        /\ r.condition = c.condition}

HistoryOf(c) ==
    {h \in card_price_history : h.card_id = c.card_id /\ h.finish = c.finish
                                /\ h.condition = c.condition}

\* The (card, finish, condition) triples of the model.
Triples ==
    {[card_id |-> c.id, finish |-> Finishes[i].finish, condition |-> NEAR_MINT] :
        c \in cards, i \in 1..Len(Finishes)}

\* The call that the process_card_prices call of plast committed for triple
\* t, if any.
CallOn(t, p) ==
    {c \in p.calls : c.card_id = t.card_id /\ c.finish = t.finish
                     /\ c.condition = t.condition}

\* The step is one process_card_prices call.
CardStep == pc = "processing" /\ today' = today

\* The history entries the step appends for triple t.
Appended(t) == HistoryOf(t)' \ HistoryOf(t)

----------------------------------------------------------------------------
(* Claims about the price versioning of src/src/import_prices.py *)

\* C12: a committed insert_price_data call appends a history entry if and
\* only if a current row exists for its (card, finish, condition), the row's
\* timestamp differs from the call's updated_at and the row's price is not
\* null; the entry carries the row's previous price and previous timestamp;
\* nothing else appends to the history of the triple.
C12_ArchiveBeforeOverwrite ==
    [][CardStep =>
        \A t \in Triples :
            /\ Appended(t) # {}
               <=> \E c \in CallOn(t, plast') : \E r \in CurrentOf(t) :
                       r.updated_at # c.at /\ r.price # None
            /\ \A h \in Appended(t) : \E r \in CurrentOf(t) :
                   h.price = r.price /\ h.timestamp = r.updated_at
            /\ Cardinality(Appended(t)) <= 1]_vars

\* A price was replaced by another one on a later day, and the history
\* holds the replaced price with the day it was observed.
C12_Witness ==
    \E c \in plast.calls : \E d \in CallOn(c, [calls |-> lastCall]) :
        /\ d.price # None /\ c.price # None /\ d.price # c.price /\ d.at < c.at
        /\ \E h \in HistoryOf(c) : h.price = d.price /\ h.timestamp = d.at
        /\ \E r \in CurrentOf(c) : r.price = c.price /\ r.updated_at = c.at

C14_RepeatedCallAddsNothing ==
    [][CardStep =>
        \A t \in Triples :
            /\ Cardinality(Appended(t)) <= 1
            /\ \A c \in CallOn(t, plast') :
               \A d \in CallOn(t, [calls |-> lastCall']) :
                   d.price = c.price /\ d.at = c.at
                   => /\ HistoryOf(t)' = HistoryOf(t)
                      /\ CurrentOf(t)' = CurrentOf(t)]_vars

\* A call repeated the one before it, which had archived an earlier price.
C14_Witness ==
    \E c \in plast.calls : \E d \in CallOn(c, [calls |-> lastCall]) :
        /\ d.price = c.price /\ d.at = c.at /\ c.price # None
        /\ \E h \in HistoryOf(c) : h.timestamp < c.at
        /\ Cardinality(HistoryOf(c)) = 1

\* C15: there is at most one current row per (card, finish, condition); a
\* call on a triple that has a row leaves the triple with the row of that
\* id.
C15_OneCurrentRowPerTriple ==
    [][\A t \in Triples :
           /\ Cardinality(CurrentOf(t)') <= 1
           /\ CurrentOf(t) # {}
              => {r.id : r \in CurrentOf(t)'} = {r.id : r \in CurrentOf(t)}]_vars

\* A row created by one observation carries the price and the day of a
\* later one.
C15_Witness ==
    \E c \in plast.calls : \E d \in CallOn(c, [calls |-> lastCall]) :
        /\ d.at < c.at /\ d.price # c.price
        /\ \E r \in CurrentOf(c) : r.price = c.price /\ r.updated_at = c.at
        /\ Cardinality(CurrentOf(c)) = 1

----------------------------------------------------------------------------
(* The price selection on every dict of quotes *)

Prices == {None, <<5>>, <<7>>}

\* Every dict of the five quotes, each missing (or null) or one of two prices.
Quotes ==
    {Q(market, mid, low, high, directLow) :
        market \in Prices, mid \in Prices, low \in Prices, high \in Prices,
        directLow \in Prices}

\* import_prices_from_api has fetched one card with one dict of quotes for
\* its normal finish; the price tables are empty.
SelectInit ==
    /\ PriceCatalogue
    /\ card_price = {} /\ card_price_history = {}
    /\ today = 1
    /\ all_cards \in {<<Normal("e1", q)>> : q \in Quotes}
    /\ cursor = 1 /\ pc = "processing" /\ price_imports = 1
    /\ plast = NoCall /\ lastCall = {}
    /\ RunIdle /\ exited = NoExit /\ call = NoPureCall

\* The card is processed by src/src/import_prices.py ...
SelectSpec ==
    SelectInit /\ [][\E desc \in BOOLEAN : ProcessNext(FALSE, desc)]_vars

\* ... and by the legacy src/import_prices.py.
LegacySelectSpec ==
    SelectInit /\ [][\E desc \in BOOLEAN : ProcessNext(TRUE, desc)]_vars

QuoteOrder == <<"market", "mid", "low", "high", "directLow">>

\* The first quote of q, in the order of QuoteOrder, that is not null.
FirstPresent(q) ==
    IF \E i \in 1..Len(QuoteOrder) : q[QuoteOrder[i]] # None
    THEN q[QuoteOrder[CHOOSE i \in 1..Len(QuoteOrder) :
                          /\ q[QuoteOrder[i]] # None
                          /\ \A j \in 1..(i - 1) : q[QuoteOrder[j]] = None]]
    ELSE None

\* C17: after process_card_prices has returned for a card that is in the
\* store, the current row of each finish the card has a dict of quotes for
\* carries the first non-null of market, mid, low, high, directLow, and NULL
\* when all five are missing.
C17_FirstPresentQuote ==
    plast.ok /\ plast.card_id # NoRow /\ plast.card.tcgplayer =>
        \A i \in 1..Len(Finishes) :
            LET v == plast.card.prices[Finishes[i].key]
                t == [card_id |-> plast.card_id, finish |-> Finishes[i].finish,
                      condition |-> NEAR_MINT]
            IN  v.kind = "dict" =>
                    /\ CurrentOf(t) # {}
                    /\ \A r \in CurrentOf(t) : r.price = FirstPresent(v.q)

\* C18: a process_card_prices call for an external id that no card has
\* returns without an error, leaves the current rows and the history as they
\* are, and the import goes on with the next card of all_cards, if any.
C18_UnknownCardIsSkipped ==
    [][CardStep /\ (~\E c \in cards : c.external_id = all_cards[cursor].id) =>
        /\ plast'.ok /\ plast'.calls = {}
        /\ card_price' = card_price
        /\ card_price_history' = card_price_history
        /\ cursor' = cursor + 1
        /\ pc' = IF cursor < Len(all_cards) THEN "processing" ELSE "idle"]_vars

\* The card after one with an unknown external id got its price stored.
C18_Witness ==
    /\ cursor = 3 /\ (~\E c \in cards : c.external_id = all_cards[1].id)
    /\ plast.card = all_cards[2] /\ plast.ok /\ plast.calls # {}
    /\ \E c \in plast.calls : CurrentOf(c) # {}

----------------------------------------------------------------------------
(* run_price_imports.py: one process_endpoint task per set, run by a pool  *)
(* of max_workers processes; each attempt of a task runs import_prices.py  *)
(* as a subprocess.  Of an attempt this part keeps the outcome only: the   *)
(* subprocess exits with 0, exits with another code (CalledProcessError),  *)
(* or subprocess.run raises another error.                                 *)

max_retries == 3         \* process_endpoint(endpoint, max_retries = 3, ...)
retry_delay == 10        \* process_endpoint(..., retry_delay = 10)
default_workers == 3     \* run_imports(endpoints, max_workers = 3), --workers

Outcomes == {"exit0", "nonzero", "error"}

\* endpoints = [f"{args.base_url}&q=set.id:{set_id}" for set_id in set_ids]
Endpoints == {s.id : s \in sets}

\* executor.submit(process_endpoint, endpoint): the task waits for a worker.
Submitted ==
    [state |-> "pending", log |-> <<>>, slept |-> <<>>, result |-> "none"]

\* return endpoint, <result>
Return(f, result) == [f EXCEPT !.state = "done", !.result = result]

\* Mutant: the delay grows with the attempt.
Sleep_Backoff(f, attempt) ==
    [f EXCEPT !.slept = Append(@, retry_delay * (attempt + 1))]

\* time.sleep(retry_delay) (line 79)
Sleep(f, attempt) == [f EXCEPT !.slept = Append(@, retry_delay)]

\* Mutant: any error of an attempt is retried like a failed subprocess.
OnError_Retries(f, attempt) ==
    IF attempt < max_retries - 1 THEN Sleep(f, attempt)
    ELSE Return(f, "False")

\* except Exception: ... return endpoint, False (lines 84-86)
OnError(f, attempt) == Return(f, "False")

\* One turn of "for attempt in range(max_retries)" (lines 61-86) of the task
\* f, whose subprocess ends with outcome; the loop's end is line 88.
process_endpoint(f, outcome) ==
    Then(Len(f.log),
         LAMBDA attempt :
    Then([f EXCEPT !.log = Append(@, outcome)],
         LAMBDA f1 :
    Then(IF outcome = "exit0" THEN Return(f1, "True")
         ELSE IF outcome = "nonzero"
              THEN IF attempt < max_retries - 1 THEN Sleep(f1, attempt)
                   ELSE Return(f1, "False")
              ELSE OnError(f1, attempt),
         LAMBDA f2 :
             IF f2.state = "running" /\ attempt + 1 >= max_retries
             THEN Return(f2, "False")
             ELSE f2)))

Running == {e \in DOMAIN futures : futures[e].state = "running"}

\* run_imports has submitted every endpoint (lines 98-110); the number of
\* workers is the command line's.
RunInit ==
    /\ PriceIdle /\ PriceCatalogue
    /\ max_workers \in 1..default_workers
    /\ futures = [e \in Endpoints |-> Submitted]
    /\ completed = 0 /\ successful = 0
    /\ workers = <<>> /\ exited = NoExit /\ call = NoPureCall

\* A free worker takes a pending task and calls process_endpoint, which sets
\* up its logging (line 60, outside the try) and raises if that fails.
Start(e, logging_ok) ==
    /\ e \in DOMAIN futures /\ futures[e].state = "pending"
    /\ Cardinality(Running) < max_workers
    /\ futures' = [futures EXCEPT ![e] =
                      IF logging_ok THEN [@ EXCEPT !.state = "running"]
                      ELSE Return(@, "raised")]
    /\ UNCHANGED <<cardvars, pricevars, max_workers, completed, successful,
                   workers, exited, call>>

\* The subprocess of a running task ends.
Attempt(e, outcome) ==
    /\ e \in DOMAIN futures /\ futures[e].state = "running"
    /\ futures' = [futures EXCEPT ![e] = process_endpoint(@, outcome)]
    /\ UNCHANGED <<cardvars, pricevars, max_workers, completed, successful,
                   workers, exited, call>>

\* Mutant: the first task that did not succeed ends the collection: the
\* tasks that are not done are cancelled.
Collected_Abort(fs, e) ==
    [x \in DOMAIN fs |->
        IF x = e \/ (fs[e].result # "True" /\ fs[x].state # "done")
        THEN [fs[x] EXCEPT !.state = "collected"] ELSE fs[x]]

\* as_completed has yielded the future of e.
Collected(fs, e) == [fs EXCEPT ![e].state = "collected"]

\* One turn of "for future in as_completed(future_to_endpoint)" (lines
\* 113-135); future.result() raises what the task raised.
Collect(e) ==
    /\ e \in DOMAIN futures /\ futures[e].state = "done"
    /\ completed' = completed + 1
    /\ successful' = IF futures[e].result = "True" THEN successful + 1
                     ELSE successful
    /\ futures' = Collected(futures, e)
    /\ UNCHANGED <<cardvars, pricevars, max_workers, workers, exited, call>>

RunNext ==
    \/ \E e \in Endpoints, logging_ok \in BOOLEAN : Start(e, logging_ok)
    \/ \E e \in Endpoints, outcome \in Outcomes : Attempt(e, outcome)
    \/ \E e \in Endpoints : Collect(e)

RunSpec == RunInit /\ [][RunNext]_vars

\* The worker processes and run_imports' loop keep running.
RunFairSpec == RunSpec /\ WF_vars(RunNext)

----------------------------------------------------------------------------
(* Claims about the retries of a partition and the collection of results *)

\* process_endpoint has returned or raised.
Ended(f) == f.state \in {"done", "collected"}

Last(q) == q[Len(q)]

\* What C19 says of every task, but for when failure is returned.
RetryShape(f) ==
    /\ Len(f.log) <= max_retries
    /\ \A i \in 1..(Len(f.log) - 1) : f.log[i] = "nonzero"
    /\ f.result = "True" <=> Len(f.log) > 0 /\ Last(f.log) = "exit0"
    /\ \A i \in 1..Len(f.slept) : f.slept[i] = retry_delay
    /\ f.state = "running" => Len(f.slept) = Len(f.log)
    /\ Ended(f) /\ Len(f.log) > 0 => Len(f.slept) = Len(f.log) - 1
    /\ f.state = "running" => Len(f.log) < max_retries

AllCollected == \A e \in DOMAIN futures : futures[e].state = "collected"

\* C20: successful <= completed <= total at every step; a task that has
\* failed or raised keeps no other task from running and being collected:
\* in the end every task is collected, completed is the number of endpoints
\* and successful the number of tasks that returned success.
C20_NoCrossPartitionAbort ==
    /\ [](/\ successful <= completed
          /\ completed <= Cardinality(Endpoints)
          /\ completed = Cardinality({e \in DOMAIN futures :
                                         futures[e].state = "collected"})
          /\ AllCollected =>
                 /\ completed = Cardinality(Endpoints)
                 /\ successful = Cardinality({e \in DOMAIN futures :
                                                 futures[e].result = "True"})
          /\ \A e \in DOMAIN futures :
                 futures[e].state = "collected" => Len(futures[e].log) > 0
                                                   \/ futures[e].result = "raised")
    /\ <>[]AllCollected

\* With one worker: a task failed after its retries and the other task
\* succeeded; both are collected.
C20_Witness ==
    /\ AllCollected /\ max_workers = 1
    /\ completed = Cardinality(Endpoints) /\ successful = 1
    /\ \E e \in DOMAIN futures :
           futures[e].result = "False" /\ Len(futures[e].log) = max_retries
    /\ \E e \in DOMAIN futures : futures[e].result = "True"

----------------------------------------------------------------------------
(* The parallel price import: main builds one endpoint per set, run_imports *)
(* runs them on its pool, and every attempt of a task is an import_prices.py *)
(* subprocess that fetches its endpoint's cards and processes them one       *)
(* transaction after the other, interleaved with the other subprocesses.     *)

\* The cards of the price API, in the order it lists them, with the set each
\* belongs to.
ApiCatalogue ==
    <<[id |-> "e1", set |-> "s1"], [id |-> "e2", set |-> "s1"],
      [id |-> "e3", set |-> "s2"]>>

\* Mutant: the endpoint carries no set filter.
Query_NoFilter(set_id) == ApiCatalogue

\* The cards the API lists for f"{args.base_url}&q=set.id:{set_id}" (line 175)
Query(set_id) == SelectSeq(ApiCatalogue, LAMBDA c : c.set = set_id)

\* What the API may report for one card.
Shapes(e) == {Normal(e, Market(5)), HoloNull(e)}

\* What the API answers to the endpoint of set_id: a request fails, or one
\* page lists the set's cards.
EndpointApis(set_id) ==
    Then(Query(set_id),
         LAMBDA o :
             {<<FailedPage>>}
             \cup {<<Page(cs, Len(cs))>> :
                      cs \in {c \in [1..Len(o) ->
                                        UNION {Shapes(o[i].id) : i \in 1..Len(o)}] :
                                 \A i \in 1..Len(o) : c[i].id = o[i].id}})

\* subprocess.run(..., check=True) raises CalledProcessError on a code other
\* than 0 (lines 63-69).
OutcomeOf(code) == IF code = 0 THEN "exit0" ELSE "nonzero"

\* The triples whose rows the statements of one process_card_prices call
\* address: one per key of 'prices' it reaches, the key whose value raises
\* included (the SELECT of lines 20-32 comes first).
Touches(card_data, card_id) ==
    IF card_id = NoRow \/ ~card_data.tcgplayer THEN {}
    ELSE {[card_id |-> card_id, finish |-> Finishes[i].finish,
           condition |-> NEAR_MINT] :
             i \in {k \in 1..Len(Finishes) :
                      /\ card_data.prices[Finishes[k].key].kind # "absent"
                      /\ \A j \in 1..(k - 1) :
                             card_data.prices[Finishes[j].key].kind # "null"}}

NoWorker == [all_cards |-> <<>>, cursor |-> 1, pc |-> "idle", touched |-> {}]

\* The catalogue before the parallel import: cards of two sets, one external
\* id being held by a card of each set.
ParallelCatalogue ==
    /\ cards = {[id |-> 1, external_id |-> "e1", set_id |-> "s1",
                 supertype |-> Trainer],
                [id |-> 2, external_id |-> "e2", set_id |-> "s1",
                 supertype |-> Trainer],
                [id |-> 3, external_id |-> "e3", set_id |-> "s2",
                 supertype |-> Trainer],
                [id |-> 4, external_id |-> "e1", set_id |-> "s2",
                 supertype |-> Trainer]}
    /\ details = {} /\ attacks = {} /\ costs = {} /\ abilities = {}
    /\ types = {} /\ subtypes = {} /\ rules = {} /\ images = {}
    /\ sets = {[id |-> "s1", series |-> "SWORD_AND_SHIELD",
                release_date |-> <<2020, 2, 7>>, printed_total |-> 202],
               [id |-> "s2", series |-> "BASE",
                release_date |-> <<1999, 1, 9>>, printed_total |-> 102]}
    /\ nextId = 5
    /\ imports = 2
    /\ last = [file |-> File("s2", <<>>), ok |-> TRUE, again |-> FALSE,
               from |-> 3, ins |-> 2, upd |-> 0, del |-> 0]

\* main has read the set ids and run_imports has submitted their endpoints.
ParallelInit ==
    /\ PriceIdle /\ ParallelCatalogue
    /\ max_workers \in 1..default_workers
    /\ futures = [e \in Endpoints |-> Submitted]
    /\ completed = 0 /\ successful = 0
    /\ workers = [e \in Endpoints |-> NoWorker]
    /\ exited = NoExit /\ call = NoPureCall

\* The subprocess of the running task of e ends with code: the task goes on
\* as process_endpoint says.
Exits(e, code) ==
    [futures EXCEPT ![e] = process_endpoint(@, OutcomeOf(code))]

\* The subprocess of the task of e fetches its pages (lines 159-189).
WFetch(e, api) ==
    /\ e \in DOMAIN futures /\ futures[e].state = "running"
    /\ workers[e].pc = "idle"
    /\ \E r \in {PageLoop(api, 1, <<>>)} :
           IF r.err \/ r.cards = <<>>
           THEN /\ futures' = Exits(e, import_prices_main(r.err))
                /\ UNCHANGED workers
           ELSE /\ workers' = [workers EXCEPT ![e].all_cards = r.cards,
                                              ![e].cursor = 1,
                                              ![e].pc = "processing"]
                /\ UNCHANGED futures
    /\ UNCHANGED <<cardvars, pricevars, max_workers, completed, successful,
                   exited, call>>

\* The subprocess of the task of e processes its next card (lines 192-193,
\* 105-155) and exits after the last one, or when the card raises.
WProcess(e, desc) ==
    /\ e \in DOMAIN futures /\ futures[e].state = "running"
    /\ workers[e].pc = "processing"
    /\ \E w \in {workers[e]} :
       \E card_id \in {FindCard(w.all_cards[w.cursor].id, desc)} :
       \E st \in {process_card_prices(BeginPrices, w.all_cards[w.cursor],
                                      card_id, FALSE)} :
           /\ card_price' = Committed(st, "card_price", card_price)
           /\ card_price_history' =
                  Committed(st, "card_price_history", card_price_history)
           /\ nextId' = st.next
           /\ IF st.err \/ w.cursor = Len(w.all_cards)
              THEN /\ futures' = Exits(e, import_prices_main(st.err))
                   /\ workers' = [workers EXCEPT
                          ![e].pc = "idle",
                          ![e].touched =
                              @ \cup Touches(w.all_cards[w.cursor], card_id)]
              ELSE /\ workers' = [workers EXCEPT
                          ![e].cursor = @ + 1,
                          ![e].touched =
                              @ \cup Touches(w.all_cards[w.cursor], card_id)]
                   /\ UNCHANGED futures
    /\ UNCHANGED <<cards, details, attacks, costs, abilities, types, subtypes,
                   rules, images, sets, imports, last, today, all_cards,
                   cursor, pc, price_imports, plast, lastCall, max_workers,
                   completed, successful, exited, call>>

ParallelNext ==
    \/ \E e \in Endpoints, logging_ok \in BOOLEAN : Start(e, logging_ok)
    \/ \E e \in Endpoints : \E api \in EndpointApis(e) : WFetch(e, api)
    \/ \E e \in Endpoints, desc \in BOOLEAN : WProcess(e, desc)
    \/ \E e \in Endpoints : Collect(e)

\* python run_price_imports.py
ParallelSpec == ParallelInit /\ [][ParallelNext]_vars

\* C21: in every interleaving of the workers, no (card, finish, condition)
\* triple has its current row or its history read or written by the
\* subprocesses of two different set endpoints.
C21_DisjointWrites ==
    \A a \in DOMAIN workers : \A b \in DOMAIN workers :
        a # b => workers[a].touched \cap workers[b].touched = {}

\* Two workers run at the same time and each has addressed a triple.
C21_Witness ==
    \E a \in DOMAIN workers : \E b \in DOMAIN workers :
        /\ a # b
        /\ futures[a].state = "running" /\ futures[b].state = "running"
        /\ workers[a].touched # {} /\ workers[b].touched # {}

----------------------------------------------------------------------------
(* Set import: src/src/import_sets.py.  Of a set the model keeps the columns *)
(* the card import reads; the legalities and images of a set are written by  *)
(* the same transaction and read by nothing else.                            *)

\* The 'series' of a feed record: its text in lower case and whether the feed
\* capitalises it; series_string.lower() (line 29)
Series(text, caps) == [text |-> text, caps |-> caps]
Lower(series_string) == series_string.text

\* map_to_card_series_enum (lines 8-31)
map_to_card_series_enum(series_string) ==
    Then(Lower(series_string),
         LAMBDA normalized :
             CASE normalized = "base" -> "BASE"
               [] normalized = "gym" -> "GYM"
               [] normalized = "neo" -> "NEO"
               [] normalized = "e-card" -> "E_CARD"
               [] normalized = "ex" -> "EX"
               [] normalized = "pop" -> "POP"
               [] normalized = "diamond & pearl" -> "DIAMOND_AND_PEARL"
               [] normalized = "platinum" -> "PLATINUM"
               [] normalized = "heartgold & soulsilver" ->
                      "HEARTGOLD_AND_SOULSILVER"
               [] normalized = "black & white" -> "BLACK_AND_WHITE"
               [] normalized = "xy" -> "XY"
               [] normalized = "sun & moon" -> "SUN_AND_MOON"
               [] normalized = "sword & shield" -> "SWORD_AND_SHIELD"
               [] normalized = "scarlet & violet" -> "SCARLET_AND_VIOLET"
               [] normalized = "np" -> "NP"
               [] normalized = "other" -> "OTHER"
               [] OTHER -> "OTHER")

\* A releaseDate that datetime.strptime(..., '%Y/%m/%d') rejects.
BadDate == <<>>

\* One record of the sets feed.
SetItem(id, series, releaseDate, printedTotal) ==
    [id |-> id, series |-> series, releaseDate |-> releaseDate,
     printedTotal |-> printedTotal]

\* set_data of one record (lines 148-158), or the error its date raises.
SetData(item) ==
    [err |-> item.releaseDate = BadDate,
     row |-> [id |-> item.id,
              series |-> map_to_card_series_enum(item.series),
              release_date |-> item.releaseDate,
              printed_total |-> item.printedTotal]]

\* INSERT INTO sets ... ON CONFLICT (id) DO UPDATE SET ... (lines 38-53)
UpsertSet(S, row) == {s \in S : s.id # row.id} \cup {row}

RECURSIVE insert_sets(_, _, _)
insert_sets(S, sets_data, i) ==
    IF i > Len(sets_data) THEN S
    ELSE insert_sets(UpsertSet(S, sets_data[i]), sets_data, i + 1)

\* import_card_sets (lines 127-198) on a feed file that exists or not: the
\* sets table as the call leaves it and whether it raised.
import_card_sets(file) ==
    IF ~file.exists
       \/ \E i \in 1..Len(file.data) : SetData(file.data[i]).err
    THEN [err |-> TRUE, sets |-> sets]
    ELSE [err |-> FALSE,
          sets |-> insert_sets(sets, [i \in 1..Len(file.data) |->
                                         SetData(file.data[i]).row], 1)]

SetFile(exists, data_) == [exists |-> exists, data |-> data_]

\* The sets feeds of the model.
SetFiles ==
    {SetFile(TRUE, <<SetItem("swsh1", Series("sword & shield", TRUE),
                             <<2020, 2, 7>>, 202)>>),
     SetFile(TRUE, <<SetItem("s1", Series("scarlet & violet", TRUE),
                             <<2023, 3, 31>>, 198),
                     SetItem("s3", Series("sword & shield", FALSE),
                             <<2020, 1, 31>>, 25)>>),
     SetFile(TRUE, <<SetItem("s4", Series("sword & shield", TRUE),
                             <<2020, 3, 1>>, 73),
                     SetItem("s5", Series("a series of its own", TRUE),
                             <<2021, 10, 8>>, 25)>>),
     SetFile(TRUE, <<SetItem("s2", Series("base", TRUE), BadDate, 102)>>),
     SetFile(FALSE, <<>>)}

\* python import_sets.py
ImportSets(file) ==
    /\ pc = "idle"
    /\ \E r \in {import_card_sets(file)} :
           /\ sets' = r.sets
           /\ exited' = Exit("import_sets", r.err, import_sets_main(r.err))
    /\ UNCHANGED <<cards, details, attacks, costs, abilities, types, subtypes,
                   rules, images, nextId, imports, last, pricevars, runvars,
                   call>>

\* The card feeds and price feeds of the three scripts run in turn.
CliFiles ==
    {File("s1", <<Basic("e1")>>), File("s1", <<Malformed("e1")>>),
     File("s3", <<Potion("e2")>>)}

CliApis ==
    {<<Page(<<Normal("e1", Market(5)), HoloNull("e1")>>, 2)>>,
     <<Page(<<Normal("e2", Market(7))>>, 1)>>,
     <<Page(<<>>, 0)>>,
     <<FailedPage>>}

CliNext ==
    \/ \E file \in SetFiles : ImportSets(file)
    \/ \E file \in CliFiles, desc \in BOOLEAN : pc = "idle" /\ ImportCards(file, desc)
    \/ \E api \in CliApis : FetchPages(api)
    \/ \E desc \in BOOLEAN : ProcessNext(FALSE, desc)

\* The three command-line scripts, run one after the other in any order.
CliSpec == Init /\ [][CliNext]_vars

\* C22: every command-line entry point (card import, set import, price
\* import) ends with exit code 0 when its import succeeded and with a
\* non-zero exit code when its import raised an error.
C22_ExitCodeTellsFailure ==
    exited # NoExit => (exited.code = 0 <=> ~exited.raised)

\* The same statement for the card import and the price import alone.
ExitCodeOfCardsAndPrices ==
    exited.script \in {"import_cards", "import_prices"}
        => (exited.code = 0 <=> ~exited.raised)

----------------------------------------------------------------------------
(* The era classifier check_if_set_after_swsh of src/import_cards.py, which *)
(* import_cards calls once per file (line 435).  The query's value is SQL's *)
(* TRUE, FALSE or NULL, which Python receives as True, False or None.       *)

\* a AND b, a OR b of SQL
And3(a, b) ==
    IF a = "False" \/ b = "False" THEN "False"
    ELSE IF a = "None" \/ b = "None" THEN "None" ELSE "True"
Or3(a, b) ==
    IF a = "True" \/ b = "True" THEN "True"
    ELSE IF a = "None" \/ b = "None" THEN "None" ELSE "False"

\* series = '<name>'; the import writes no NULL series
SeriesIs(row, name) == IF row.series = name THEN "True" ELSE "False"

\* Mutant: later than the reference date only.
DateGE_Strict(a, b) ==
    \/ a[1] > b[1]
    \/ a[1] = b[1] /\ a[2] > b[2]
    \/ a[1] = b[1] /\ a[2] = b[2] /\ a[3] > b[3]

\* a >= b of two dates <<year, month, day>>
DateGE(a, b) ==
    \/ a[1] > b[1]
    \/ a[1] = b[1] /\ a[2] > b[2]
    \/ a[1] = b[1] /\ a[2] = b[2] /\ a[3] >= b[3]

\* Mutant: without the reference set every release date passes.
NotBeforeReference_NoReference(S, row) ==
    Then({r \in S : r.id = "swsh1"},
         LAMBDA ref :
             IF ref = {} THEN "True"
             ELSE IF DateGE(row.release_date,
                            (CHOOSE r \in ref : TRUE).release_date)
                  THEN "True" ELSE "False")

\* release_date >= (SELECT release_date FROM sets WHERE id = 'swsh1'): NULL
\* when the subquery finds no row (lines 38-39)
NotBeforeReference(S, row) ==
    Then({r \in S : r.id = "swsh1"},
         LAMBDA ref :
             IF ref = {} THEN "None"
             ELSE IF DateGE(row.release_date,
                            (CHOOSE r \in ref : TRUE).release_date)
                  THEN "True" ELSE "False")

\* check_if_set_after_swsh(set_id, conn) on the sets table S (lines 33-45)
check_if_set_after_swsh(S, set_id) ==
    Then({r \in S : r.id = set_id},
         LAMBDA found :
             IF found = {} THEN "False"
             ELSE Then(CHOOSE r \in found : TRUE,
                       LAMBDA row :
                           Or3(SeriesIs(row, "SCARLET_AND_VIOLET"),
                               And3(SeriesIs(row, "SWORD_AND_SHIELD"),
                                    NotBeforeReference(S, row)))))

\* The set ids the classifier is asked about.
SetIds == {"swsh1", "s1", "s2", "s3", "s4", "s5", "nope"}

\* is_modern_set = check_if_set_after_swsh(set_id, conn)
Classify(set_id) ==
    /\ pc = "idle"
    /\ call' = [fn |-> "check_if_set_after_swsh", args |-> <<set_id, sets>>,
                result |-> check_if_set_after_swsh(sets, set_id)]
    /\ UNCHANGED <<cardvars, pricevars, runvars, exited>>

ClassifyNext ==
    \/ \E file \in SetFiles : ImportSets(file)
    \/ \E set_id \in SetIds : Classify(set_id)

\* The classifier on every sets table that set imports build.
ClassifySpec == Init /\ [][ClassifyNext]_vars

\* The days of a date, counted so that a later date has the larger number.
DayNumber(d) == (d[1] * 12 + d[2]) * 31 + d[3]

\* The row of set id in the table S, and whether there is one.
InSets(S, id) == \E r \in S : r.id = id
SetRow(S, id) == CHOOSE r \in S : r.id = id

\* The last call is a classifier call on a set of the store, the reference
\* set being in the store as well.
Classified ==
    /\ call.fn = "check_if_set_after_swsh"
    /\ InSets(call.args[2], call.args[1])
    /\ InSets(call.args[2], "swsh1")

\* C23: check_if_set_after_swsh is true exactly when the set's series is
\* SCARLET_AND_VIOLET, or its series is SWORD_AND_SHIELD and its release date
\* is on or after the release date of the reference set swsh1; every other
\* set classifies false.
C23_EraClassifier ==
    Classified =>
        LET row == SetRow(call.args[2], call.args[1])
            ref == SetRow(call.args[2], "swsh1")
            modern ==
                \/ row.series = "SCARLET_AND_VIOLET"
                \/ /\ row.series = "SWORD_AND_SHIELD"
                   /\ DayNumber(row.release_date) >= DayNumber(ref.release_date)
        IN  call.result = IF modern THEN "True" ELSE "False"

\* A SWORD_AND_SHIELD set released before the reference date (in an earlier
\* month, on a later day of the month) has been classified.
C23_Witness ==
    /\ Classified
    /\ LET row == SetRow(call.args[2], call.args[1])
           ref == SetRow(call.args[2], "swsh1")
       IN  /\ row.series = "SWORD_AND_SHIELD"
           /\ DayNumber(row.release_date) < DayNumber(ref.release_date)
           /\ row.release_date[3] > ref.release_date[3]
    /\ call.result = "False"

----------------------------------------------------------------------------
(* The number normalizer create_card_set_number of src/import_cards.py.  A  *)
(* string is the sequence of its characters.                                *)

\* Longest input taken from every string over the alphabet.
MaxLen == 3

\* The characters that str.strip() removes, among those of the model.
Whitespace == {" ", "\n"}

\* not set_number or not set_number.strip() (line 49)
IsBlank(s) == \A i \in 1..Len(s) : s[i] \in Whitespace

DigitChar(d) == CHOOSE c \in Digits : DigitValue(c) = d

\* str(n) of an integer n >= 0
RECURSIVE Str(_)
Str(n) ==
    IF n < 10 THEN <<DigitChar(n)>>
    ELSE Str(n \div 10) \o <<DigitChar(n % 10)>>

\* The index where the run of digits that holds s[i] ends: \d+ is greedy.
RECURSIVE RunEnd(_, _)
RunEnd(s, i) ==
    IF i < Len(s) /\ s[i + 1] \in Digits THEN RunEnd(s, i + 1) ELSE i

\* (TG|GG) at index i of s
GalleryPrefixAt(s, i) ==
    /\ i + 1 <= Len(s)
    /\ s[i] \in {"T", "G"} /\ s[i + 1] = "G"

\* (TG|GG)(\d+)(?:/(?:TG|GG)\d+)? matches the whole of t
GalleryCore(t) ==
    /\ GalleryPrefixAt(t, 1)
    /\ Len(t) >= 3 /\ t[3] \in Digits
    /\ Then(RunEnd(t, 3),
            LAMBDA e :
                \/ e = Len(t)
                \/ /\ e + 4 <= Len(t)
                   /\ t[e + 1] = "/"
                   /\ GalleryPrefixAt(t, e + 2)
                   /\ \A j \in (e + 4)..Len(t) : t[j] \in Digits)

\* re.match(r'^(TG|GG)(\d+)(?:/(?:TG|GG)\d+)?$', set_number) (line 54): $
\* matches at the end of the string and before a newline that ends it.
gallery_match(set_number) ==
    \/ GalleryCore(set_number)
    \/ /\ Len(set_number) > 0
       /\ set_number[Len(set_number)] = "\n"
       /\ GalleryCore(SubSeq(set_number, 1, Len(set_number) - 1))

\* Mutant: the gallery number is not padded.
GalleryNumber_Unpadded(number) == Str(number)

\* f"{number:02d}" (line 59)
GalleryNumber(number) ==
    IF number < 10 THEN <<"0">> \o Str(number) ELSE Str(number)

\* Mutant: the digits are looked for in the whole input.
FirstPart_Whole(set_number) == set_number

\* The index of the first '/' of s from index i on, Len(s) + 1 without one.
RECURSIVE SlashAt(_, _)
SlashAt(s, i) ==
    IF i > Len(s) \/ s[i] = "/" THEN i ELSE SlashAt(s, i + 1)

\* set_number.split('/')[0] (lines 63-67)
FirstPart(set_number) == SubSeq(set_number, 1, SlashAt(set_number, 1) - 1)

\* match.start() of re.search(r'(\d+)', s) from index i on; 0 for no match
RECURSIVE SearchDigit(_, _)
SearchDigit(s, i) ==
    IF i > Len(s) THEN 0
    ELSE IF s[i] \in Digits THEN i ELSE SearchDigit(s, i + 1)

\* Mutant: every number is padded as a modern set's.
FormattedNumber_AlwaysPadded(number, is_modern_set) ==
    IF number < 10 THEN <<"0", "0">> \o Str(number)
    ELSE IF number < 100 THEN <<"0">> \o Str(number)
    ELSE Str(number)

\* Mutant: a modern set's numbers are padded to two digits.
FormattedNumber_TwoDigits(number, is_modern_set) ==
    IF is_modern_set /\ number < 10 THEN <<"0">> \o Str(number)
    ELSE Str(number)

\* formatted_number (lines 83-93)
FormattedNumber(number, is_modern_set) ==
    IF is_modern_set
    THEN IF number < 10 THEN <<"0", "0">> \o Str(number)
         ELSE IF number < 100 THEN <<"0">> \o Str(number)
         ELSE Str(number)
    ELSE Str(number)

\* Mutant: what follows the digits in the first segment is dropped.
Reconstruct_NoSuffix(prefix, formatted_number, suffix, total_cards) ==
    prefix \o formatted_number \o <<"/">> \o Str(total_cards)

\* Mutant: the prefix of the number is dropped.
Reconstruct_NoPrefix(prefix, formatted_number, suffix, total_cards) ==
    formatted_number \o suffix \o <<"/">> \o Str(total_cards)

\* f"{prefix}{formatted_number}{suffix}/{total_cards}" (line 96)
Reconstruct(prefix, formatted_number, suffix, total_cards) ==
    prefix \o formatted_number \o suffix \o <<"/">> \o Str(total_cards)

\* What the function returns: None, or a string.
ReturnNone == [none |-> TRUE, s |-> <<>>]
ReturnStr(s) == [none |-> FALSE, s |-> s]

\* create_card_set_number(set_number, total_cards, is_modern_set) (lines
\* 47-96)
create_card_set_number(set_number, total_cards, is_modern_set) ==
    IF IsBlank(set_number) THEN ReturnNone
    ELSE IF gallery_match(set_number)
    THEN Then(SubSeq(set_number, 1, 2),
              LAMBDA prefix :
         Then(IntOf(SubSeq(set_number, 3, RunEnd(set_number, 3))),
              LAMBDA number :
                  ReturnStr(prefix \o GalleryNumber(number) \o <<"/">>
                            \o prefix \o Str(total_cards))))
    ELSE Then(FirstPart(set_number),
              LAMBDA original_number :
         Then(SearchDigit(original_number, 1),
              LAMBDA start :
                  IF start = 0 THEN ReturnNone
                  ELSE Then(RunEnd(original_number, start),
                            LAMBDA end :
                                ReturnStr(Reconstruct(
                                    SubSeq(original_number, 1, start - 1),
                                    FormattedNumber(
                                        IntOf(SubSeq(original_number, start,
                                                     end)),
                                        is_modern_set),
                                    SubSeq(original_number, end + 1,
                                           Len(original_number)),
                                    total_cards)))))

\* The characters of the inputs drawn in full.
Alphabet == {"T", "G", "H", "0", "1", "9", "/", " ", "\n"}

\* Every string over the alphabet of MaxLen characters at most.
ShortStrings == UNION {[1..n -> Alphabet] : n \in 0..MaxLen}

\* Card numbers made of a prefix, a run of digits, a suffix and what follows
\* the first '/'.
NumberPrefixes ==
    {<<>>, <<"H">>, <<"T", "G">>, <<"G", "G">>, <<"S", "W", "S", "H">>,
     <<" ">>}
NumberDigits ==
    {<<"1">>, <<"9">>, <<"0", "4">>, <<"1", "0">>, <<"9", "9">>,
     <<"0", "0", "1">>, <<"0", "0", "7">>, <<"1", "0", "0">>,
     <<"0", "1", "1", "1">>}
NumberSuffixes == {<<>>, <<"a">>, <<"a", "1">>, <<"\n">>}
NumberTails ==
    {<<>>, <<"/">>, <<"/", "3", "0">>, <<"/", "T", "G", "3", "0">>,
     <<"/", "G", "G", "7", "0">>}
Numbers ==
    {p \o d \o x \o t : p \in NumberPrefixes, d \in NumberDigits,
                        x \in NumberSuffixes, t \in NumberTails}

\* printed_total of the card's set
Totals == {5, 30, 73, 111}

\* import_cards is about to normalize the number of a card.
Pending(set_number, total_cards, is_modern_set) ==
    [fn |-> "pending", args |-> <<set_number, total_cards, is_modern_set>>,
     result |-> ReturnNone]

NormalizeInit ==
    /\ PriceIdle /\ PriceCatalogue /\ RunIdle /\ exited = NoExit
    /\ call \in {Pending(s, t, f) : s \in ShortStrings \cup Numbers,
                                    t \in Totals, f \in BOOLEAN}

\* set_number = create_card_set_number(item['number'], total_cards,
\* is_modern_set) (line 441)
Normalize ==
    /\ call.fn = "pending"
    /\ call' = [fn |-> "create_card_set_number", args |-> call.args,
                result |-> create_card_set_number(call.args[1], call.args[2],
                                                  call.args[3])]
    /\ UNCHANGED <<cardvars, pricevars, runvars, exited>>

\* The normalizer on every input of the model.
NormalizeSpec == NormalizeInit /\ [][Normalize]_vars

----------------------------------------------------------------------------
(* Claims about create_card_set_number *)

\* The last call is a call of the normalizer that has returned.
Normalized == call.fn = "create_card_set_number"

\* Its arguments and what it returned.
in == call.args[1]
total == call.args[2]
padded == call.args[3]
out == call.result

SWSH001 == <<"S", "W", "S", "H", "0", "0", "1">>

\* C24: create_card_set_number("SWSH001", 73, fixed padding = true) returns
\* "001/73".
C24_FixtureSwsh001 ==
    (Normalized /\ in = SWSH001 /\ total = 73 /\ padded)
        => out = ReturnStr(<<"0", "0", "1", "/", "7", "3">>)

\* C24 as amended: create_card_set_number("SWSH001", 73, fixed padding =
\* true) returns "SWSH001/73", the prefix SWSH being kept.
C24_FixtureKeepsPrefix ==
    (Normalized /\ in = SWSH001 /\ total = 73 /\ padded)
        => out = ReturnStr(<<"S", "W", "S", "H", "0", "0", "1", "/", "7", "3">>)

\* The fixture's call has returned its string.
C24_Witness ==
    /\ Normalized /\ in = SWSH001 /\ total = 73 /\ padded
    /\ ~out.none

\* The part of s before its first '/', the whole of s when it has none.
Segment(s) ==
    IF \E i \in 1..Len(s) : s[i] = "/"
    THEN SubSeq(s, 1, (CHOOSE i \in 1..Len(s) :
                          /\ s[i] = "/"
                          /\ \A j \in 1..(i - 1) : s[j] # "/") - 1)
    ELSE s

HasDigit(s) == \E i \in 1..Len(s) : s[i] \in Digits

AllDigits(s) == \A i \in 1..Len(s) : s[i] \in Digits

\* Where the first run of digits of s begins and ends.
RunFrom(s) ==
    CHOOSE i \in 1..Len(s) :
        s[i] \in Digits /\ \A j \in 1..(i - 1) : s[j] \notin Digits
RunTo(s) ==
    CHOOSE j \in RunFrom(s)..Len(s) :
        /\ AllDigits(SubSeq(s, RunFrom(s), j))
        /\ (j < Len(s) => s[j + 1] \notin Digits)

\* The number of digits of the decimal numeral of n.
Width(n) == IF n < 10 THEN 1 ELSE IF n < 100 THEN 2 ELSE IF n < 1000 THEN 3 ELSE 4

\* The call took the regular branch: its input is no gallery number and its
\* first segment holds a digit.
Regular == Normalized /\ ~gallery_match(in) /\ HasDigit(Segment(in))

\* The prefix, the run of digits and the suffix of the input's first segment.
PrefixOf(s) == SubSeq(Segment(s), 1, RunFrom(Segment(s)) - 1)
RunOf(s) == SubSeq(Segment(s), RunFrom(Segment(s)), RunTo(Segment(s)))
SuffixOf(s) == SubSeq(Segment(s), RunTo(Segment(s)) + 1, Len(Segment(s)))

\* The number part of the returned string o for the input s and the total t:
\* what lies between the input's prefix and its suffix followed by "/" and
\* the numeral of t.
NumberPart(o, s, t) ==
    SubSeq(o, Len(PrefixOf(s)) + 1, Len(o) - Width(t) - 1 - Len(SuffixOf(s)))

\* C25: for every non-gallery input whose first '/'-separated segment is
\* prefix + first digit run + suffix, create_card_set_number returns prefix +
\* formatted number + suffix + "/" + total_printed, with prefix and suffix
\* exactly as found; what follows the first '/' of the input is discarded.
C25_PrefixAndSuffixKept ==
    Regular =>
        /\ ~out.none
        /\ LET n == NumberPart(out.s, in, total)
               numeral == SubSeq(out.s, Len(out.s) - Width(total) + 1,
                                 Len(out.s))
           IN  /\ Len(n) >= 1 /\ AllDigits(n)
               /\ IntOf(n) = IntOf(RunOf(in))
               /\ AllDigits(numeral) /\ numeral[1] # "0"
               /\ IntOf(numeral) = total
               /\ out.s = PrefixOf(in) \o n \o SuffixOf(in) \o <<"/">>
                              \o numeral

\* ("H9", 111, false) has returned "H9/111".
C25_Witness ==
    /\ Regular
    /\ in = <<"H", "9">> /\ total = 111 /\ ~padded
    /\ out = ReturnStr(<<"H", "9", "/", "1", "1", "1">>)

\* C26: with the padding flag true, the number part of a regular card number
\* is rendered 00X for values below 10, 0XX for values from 10 to 99 and
\* unpadded for values of 100 or more, whatever total_printed is.
C26_FixedPadding ==
    (Regular /\ padded /\ ~out.none) =>
        LET n == NumberPart(out.s, in, total)
            v == IntOf(RunOf(in))
        IN  /\ AllDigits(n) /\ Len(n) >= 1 /\ IntOf(n) = v
            /\ (v < 10 => Len(n) = 3 /\ n[1] = "0" /\ n[2] = "0")
            /\ (v >= 10 /\ v < 100 => Len(n) = 3 /\ n[1] = "0" /\ n[2] # "0")
            /\ (v >= 100 => n[1] # "0")

\* The value 9 has been padded to 009 in a set whose total has one digit.
C26_Witness ==
    /\ Regular /\ padded /\ ~out.none
    /\ IntOf(RunOf(in)) = 9 /\ total = 5
    /\ NumberPart(out.s, in, total) = <<"0", "0", "9">>

\* C27: with the padding flag false, the number part of a regular card
\* number is the bare integer value of the digit run, without leading zeros.
C27_LegacyPadding ==
    (Regular /\ ~padded /\ ~out.none) =>
        LET n == NumberPart(out.s, in, total)
        IN  /\ AllDigits(n) /\ Len(n) >= 1
            /\ IntOf(n) = IntOf(RunOf(in))
            /\ (Len(n) > 1 => n[1] # "0")

\* The digit run "007" has been rendered "7".
C27_Witness ==
    /\ Regular /\ ~padded /\ ~out.none
    /\ RunOf(in) = <<"0", "0", "7">>
    /\ NumberPart(out.s, in, total) = <<"7">>

GalleryPrefixes == {<<"T", "G">>, <<"G", "G">>}

\* s is the prefix TG or GG followed by digits, optionally followed by '/',
\* one of the two prefixes and digits.
GalleryInput(s) ==
    /\ Len(s) >= 3 /\ SubSeq(s, 1, 2) \in GalleryPrefixes
    /\ \E k \in 3..Len(s) :
           /\ AllDigits(SubSeq(s, 3, k))
           /\ \/ k = Len(s)
              \/ /\ k + 4 <= Len(s)
                 /\ s[k + 1] = "/"
                 /\ SubSeq(s, k + 2, k + 3) \in GalleryPrefixes
                 /\ AllDigits(SubSeq(s, k + 4, Len(s)))

\* C28: for an input made of the prefix TG or GG followed by digits,
\* optionally followed by '/' and prefix + digits, create_card_set_number
\* returns prefix + the number zero-padded to 2 digits + "/" + prefix +
\* total_printed, the same for padding flag true and false.
C28_GalleryNumbers ==
    (Normalized /\ GalleryInput(in)) =>
        /\ ~out.none
        /\ LET prefix == SubSeq(in, 1, 2)
               v == IntOf(RunOf(in))
               numeral == SubSeq(out.s, Len(out.s) - Width(total) + 1,
                                 Len(out.s))
               n == SubSeq(out.s, 3, Len(out.s) - Width(total) - 3)
           IN  /\ Len(n) >= 2 /\ AllDigits(n) /\ IntOf(n) = v
               /\ (v < 10 => Len(n) = 2)
               /\ (v >= 10 => n[1] # "0")
               /\ AllDigits(numeral) /\ numeral[1] # "0"
               /\ IntOf(numeral) = total
               /\ out.s = prefix \o n \o <<"/">> \o prefix \o numeral
        /\ out = create_card_set_number(in, total, ~padded)

\* ("TG04/TG30", 30, false) has returned "TG04/TG30".
C28_Witness ==
    /\ Normalized /\ GalleryInput(in)
    /\ in = <<"T", "G", "0", "4", "/", "T", "G", "3", "0">>
    /\ total = 30 /\ ~padded
    /\ out = ReturnStr(<<"T", "G", "0", "4", "/", "T", "G", "3", "0">>)

\* C29: create_card_set_number returns null for an empty or whitespace-only
\* input and for an input whose first '/'-separated segment contains no
\* digit, and a string for every other input.
C29_NullExactlyWithoutDigit ==
    Normalized =>
        (out.none <=> (\/ \A i \in 1..Len(in) : in[i] \in {" ", "\n"}
                       \/ ~HasDigit(Segment(in))))

\* An input whose only digit follows the first '/' has returned null.
C29_Witness ==
    /\ Normalized /\ out.none
    /\ in = <<"H", "/", "1">>

----------------------------------------------------------------------------
(* The variant of the price import that the repository keeps at             *)
(* src/import_prices.py: the timestamp of a price is the feed's              *)
(* tcgplayer.updatedAt, not the clock's day.                                 *)

\* The card as the feed dates it.
Dated(card, updatedAt) == [card EXCEPT !.updatedAt = updatedAt]

LegacyCards ==
    {Dated(Normal("e1", Market(5)), 1), Dated(Normal("e1", Market(5)), 2),
     Dated(Normal("e1", Market(7)), 2), Dated(Normal("e1", Market(7)), 3),
     Dated(Normal("e1", NoQuotes), 2),
     Dated(Normal("e1", Q(None, <<5>>, <<7>>, None, None)), 3),
     Dated(NormalAndHolo("e1"), 1), Dated(HoloNull("e1"), 2),
     NoTcgplayer("e1"), Dated(ReverseDirectLow("e2"), 1),
     Dated(Normal("e9", Market(5)), 1)}

LegacyApis ==
    {<<Page(<<c>>, 1)>> : c \in LegacyCards}
    \cup {<<Page(<<Dated(Normal("e1", Market(5)), 1),
                   Dated(Normal("e1", Market(7)), 2)>>, 2)>>,
          <<FailedPage>>}

LegacyPriceNext ==
    \/ \E api \in LegacyApis : FetchPages(api)
    \/ \E desc \in BOOLEAN : ProcessNext(TRUE, desc)

\* python import_prices.py <api_url> of src, run again and again
LegacyPriceSpec == PriceInit /\ [][LegacyPriceNext]_vars

\* The history entries of the legacy variant reference the current row.
LegacyHistoryOf(t) ==
    {h \in card_price_history : \E r \in CurrentOf(t) : h.card_price_id = r.id}

LegacyAppended(t) == LegacyHistoryOf(t)' \ LegacyHistoryOf(t)

\* C30: the legacy insert_price_data archives the incoming value: when a
\* current row exists with a timestamp different from the call's updated_at
\* and the incoming market price is not null, it appends one history entry
\* carrying the incoming price and updated_at, not the row's previous price
\* and timestamp; otherwise it appends nothing.
C30_LegacyArchivesIncoming ==
    [][CardStep =>
        \A t \in Triples :
            /\ LegacyAppended(t) # {}
               <=> \E c \in CallOn(t, plast') : \E r \in CurrentOf(t) :
                       r.updated_at # c.at /\ c.price # None
            /\ \A h \in LegacyAppended(t) :
                   /\ \E c \in CallOn(t, plast') :
                          h.price = c.price /\ h.timestamp = c.at
                   /\ \A r \in CurrentOf(t) : h.timestamp # r.updated_at
            /\ Cardinality(LegacyAppended(t)) <= 1]_vars

\* A price was replaced by another one with another date, and the history
\* holds the new price with the new date and not the replaced one.
C30_Witness ==
    \E c \in plast.calls : \E d \in CallOn(c, [calls |-> lastCall]) :
        /\ d.price # None /\ c.price # None /\ d.price # c.price /\ d.at # c.at
        /\ \E h \in LegacyHistoryOf(c) : h.price = c.price /\ h.timestamp = c.at
        /\ ~\E h \in LegacyHistoryOf(c) : h.price = d.price

----------------------------------------------------------------------------
(* The transaction of process_card_prices *)

\* The triple of the card of call p and the finish number i.
TripleOf(p, i) ==
    [card_id |-> p.card_id, finish |-> Finishes[i].finish,
     condition |-> NEAR_MINT]

\* The finishes that the card of call p has a key for in 'prices'.
FinishesOf(p) ==
    {i \in 1..Len(Finishes) : p.card.prices[Finishes[i].key].kind # "absent"}

\* C31: the writes of one process_card_prices call are committed together or
\* not at all: a call that raises (on any finish) leaves the current rows
\* and the history as they were, those of earlier cards included; a call
\* that returns after finding its card and its price source has made one
\* insert_price_data call per finish of the card, and each one's current row
\* carries the call's price and timestamp.
C31_PerCardAtomicity ==
    [][CardStep =>
        /\ ~plast'.ok => /\ card_price' = card_price
                         /\ card_price_history' = card_price_history
        /\ plast'.ok /\ plast'.card_id # NoRow /\ plast'.card.tcgplayer
           => \A i \in FinishesOf(plast') :
                  /\ CallOn(TripleOf(plast', i), plast') # {}
                  /\ \A c \in CallOn(TripleOf(plast', i), plast') :
                     \E r \in CurrentOf(c)' :
                         r.price = c.price /\ r.updated_at = c.at]_vars

\* The second card of an import failed on its second finish: the first card's
\* price is stored, and nothing of the second card's first finish is.
C31_Witness ==
    /\ ~plast.ok /\ plast.card = HoloNull("e1") /\ cursor = 2 /\ pc = "idle"
    /\ all_cards[1] = ReverseDirectLow("e2")
    /\ \E r \in card_price : r.card_id = 2 /\ r.finish = "REVERSE_HOLO"
    /\ ~\E r \in card_price : r.card_id = plast.card_id

\* C32: an insert_price_data call on a triple that has a current row changes
\* only that row's price and timestamp: the row keeps its id and its key
\* fields, the rows of the triples the step makes no call on stay as they
\* are, and the only rows that appear are those of called triples that had
\* none.
C32_UpsertFrame ==
    [][CardStep =>
        /\ \A r \in card_price :
               IF CallOn(r, plast') = {} THEN r \in card_price'
               ELSE \A c \in CallOn(r, plast') :
                        [r EXCEPT !.price = c.price, !.updated_at = c.at]
                            \in card_price'
        /\ \A r \in card_price' \ card_price :
               /\ CallOn(r, plast') # {}
               /\ \A o \in CurrentOf(r) : o.id = r.id
        /\ Cardinality(card_price') =
               Cardinality(card_price)
               + Cardinality({c \in plast'.calls : CurrentOf(c) = {}})]_vars

\* A row was overwritten with another price and day while the row of another
\* finish of the same card kept its own.
C32_Witness ==
    \E c \in plast.calls : \E d \in CallOn(c, [calls |-> lastCall]) :
        /\ d.price # c.price /\ d.at # c.at
        /\ \E r \in CurrentOf(c) : r.price = c.price /\ r.updated_at = c.at
        /\ \E o \in card_price :
               /\ o.card_id = c.card_id /\ o.finish # c.finish
               /\ o.updated_at # c.at /\ CallOn(o, plast) = {}

----------------------------------------------------------------------------
(* Further claims about the card import *)

\* A reconciliation that took the rows old of one parent to the rows new,
\* for the values feed: a row whose value is in the feed stays as it is, a
\* row whose value is not is deleted, a new row has a value of the feed that
\* no row had, and no row changes.
InsertsAndDeletesOnly(old, new, key, feed) ==
    /\ \A r \in old : IF r[key] \in feed THEN r \in new ELSE r \notin new
    /\ \A r \in new \ old :
           r[key] \in feed /\ (~\E o \in old : o[key] = r[key])
    /\ \A r \in old : \A q \in new : r.id = q.id => r = q

\* C33: a successful import of a file that lists a card once takes the
\* card's subtypes, and the types of a creature record, from the rows before
\* to the rows after by inserts of the values the record has and the store
\* had not and by deletes of the values the store had and the record has
\* not; a row whose value is in both is left alone.
C33_ValueKeyedNeverUpdated ==
    [][\A p \in Reconciled' :
           LET item == data'[p[1]]
               c == p[2]
           IN  Once(data', "id", item.id) =>
                   /\ item.supertype = Pokemon =>
                          InsertsAndDeletesOnly(TypesOf(c), TypesOf(c)', "type",
                                                Range(item.types))
                   /\ InsertsAndDeletesOnly(SubtypesOf(c), SubtypesOf(c)',
                                            "subtype", Range(item.subtypes))]_vars

\* The import kept the type row the card had, inserted the type it had not,
\* and deleted its only subtype.
C33_Witness ==
    /\ last.ok /\ last.file = File("s1", <<Evolved("e1")>>) /\ last.del > 0
    /\ \E p \in Reconciled :
           /\ \E t \in TypesOf(p[2]) : Older(t) /\ t.type = "Fire"
           /\ \E t \in TypesOf(p[2]) : ~Older(t) /\ t.type = "Water"
           /\ SubtypesOf(p[2]) = {}

----------------------------------------------------------------------------
(* The price import run over more than a year *)

\* Days of "1 year of historical price data", counted as a leap year.
OneYear == 366

\* The time between two runs: the clock that the last run read is n days on
\* when the next one reads it.
Later(n) ==
    /\ pc = "idle" /\ plast.at = today /\ price_imports < MaxPriceImports
    /\ today' = today + n
    /\ UNCHANGED <<cardvars, card_price, card_price_history, all_cards, cursor,
                   pc, price_imports, plast, lastCall, runvars, exited, call>>

RetentionApis ==
    {<<Page(<<c>>, 1)>> :
        c \in {Normal("e1", Market(5)), Normal("e1", Market(7)),
               NormalAndHolo("e1"), HoloNull("e1"), ReverseDirectLow("e2")}}
    \cup {<<FailedPage>>}

RetentionNext ==
    \/ \E api \in RetentionApis : FetchPages(api)
    \/ \E desc \in BOOLEAN : ProcessNext(FALSE, desc)
    \/ \E n \in {1, OneYear} : Later(n)

\* python import_prices.py <api_url> of src/src, run day after day and year
\* after year
RetentionSpec == PriceInit /\ [][RetentionNext]_vars

\* C34: insert_price_data maintains only one year of history: after a call no
\* history entry of the call's triple has a timestamp more than one year
\* older than the call's updated_at.
C34_OneYearRetention ==
    \A c \in plast.calls : \A h \in HistoryOf(c) :
        c.at - h.timestamp <= OneYear

\* C35: rule rows exist only for cards whose stored supertype is not the
\* creature supertype.
C35_RulesOnlyForNonCreatures ==
    \A r \in rules : \A c \in cards : c.id = r.card_id => c.supertype # Pokemon

----------------------------------------------------------------------------
(* The price import under a wall clock that can be set back *)

\* datetime.now() reads the system's wall clock, which an administrator or a
\* time synchronisation can set to another day, an earlier one included.
SetClock(d) ==
    /\ d # today
    /\ today' = d
    /\ UNCHANGED <<cardvars, card_price, card_price_history, all_cards, cursor,
                   pc, price_imports, plast, lastCall, runvars, exited, call>>

ClockApis ==
    {<<Page(<<c>>, 1)>> :
        c \in {Normal("e1", Market(5)), Normal("e1", Market(7)),
               Normal("e1", NoQuotes), NormalAndHolo("e1")}}
    \cup {<<Page(<<Normal("e1", Market(5)), Normal("e1", Market(7))>>, 2)>>,
          <<FailedPage>>}

ClockNext ==
    \/ \E api \in ClockApis : FetchPages(api)
    \/ \E desc \in BOOLEAN : ProcessNext(FALSE, desc)
    \/ \E d \in 1..MaxDay : SetClock(d)

\* python import_prices.py <api_url> of src/src, run again and again
ClockSpec == PriceInit /\ [][ClockNext]_vars

\* The updated_at of every insert_price_data call the step commits is not
\* earlier than that of the call before it on the same triple, which is the
\* timestamp of the triple's current row.
NonDecreasing ==
    CardStep =>
        \A c \in plast'.calls : \A r \in CurrentOf(c) : r.updated_at <= c.at

DistinctAndEarlier ==
    \A t \in Triples :
        /\ \A h \in HistoryOf(t) : \A g \in HistoryOf(t) :
               h.timestamp = g.timestamp => h = g
        /\ \A h \in HistoryOf(t) : \A r \in CurrentOf(t) :
               h.timestamp < r.updated_at

\* C36: if the updated_at values of the successive insert_price_data calls on
\* each triple are non-decreasing, then in every reachable state the history
\* entries of a triple have pairwise distinct timestamps and each is
\* strictly earlier than the timestamp of the triple's current row: it is so
\* at the start, and every step whose calls are non-decreasing keeps it so.
C36_DistinctHistoryTimestamps ==
    /\ DistinctAndEarlier
    /\ [][NonDecreasing /\ DistinctAndEarlier => DistinctAndEarlier']_vars

\* A triple with two history entries of different days, both earlier than
\* the day of its current row.
C36_Witness ==
    \E c \in plast.calls : \E r \in CurrentOf(c) :
        /\ r.updated_at = c.at
        /\ Cardinality({h.timestamp : h \in HistoryOf(c)}) = 2
        /\ Cardinality(HistoryOf(c)) = 2
        /\ \A h \in HistoryOf(c) : h.timestamp < r.updated_at

----------------------------------------------------------------------------
(* One partition with its retries: process_endpoint runs import_prices.py   *)
(* as a subprocess, attempt after attempt, on a store that holds the prices  *)
(* of the day before.                                                        *)

\* The task of the model.
RetryEndpoint == "s1"

\* The store before the task: the two cards of the set and the prices
\* stored for them on day 0.
RetryStore ==
    [card_price |->
         {[id |-> 3, card_id |-> 1, finish |-> "NORMAL",
           condition |-> NEAR_MINT, updated_at |-> 0, price |-> <<5>>],
          [id |-> 4, card_id |-> 2, finish |-> "NORMAL",
           condition |-> NEAR_MINT, updated_at |-> 0, price |-> <<5>>],
          [id |-> 5, card_id |-> 2, finish |-> "HOLOFOIL",
           condition |-> NEAR_MINT, updated_at |-> 0, price |-> None]},
     card_price_history |-> {},
     next |-> 6, ins |-> 0, upd |-> 0, del |-> 0, err |-> FALSE, calls |-> {}]

\* run_imports has submitted the endpoint of the set to a pool of one worker.
RetryInit ==
    /\ cards = {[id |-> 1, external_id |-> "e1", set_id |-> "s1",
                 supertype |-> Trainer],
                [id |-> 2, external_id |-> "e2", set_id |-> "s1",
                 supertype |-> Trainer]}
    /\ details = {} /\ attacks = {} /\ costs = {} /\ abilities = {}
    /\ types = {} /\ subtypes = {} /\ rules = {} /\ images = {}
    /\ sets = {[id |-> "s1", series |-> "SWORD_AND_SHIELD",
                release_date |-> <<2020, 2, 7>>, printed_total |-> 202]}
    /\ nextId = RetryStore.next
    /\ imports = 1
    /\ last = [file |-> File("s1", <<>>), ok |-> TRUE, again |-> FALSE,
               from |-> 1, ins |-> 2, upd |-> 0, del |-> 0]
    /\ card_price = RetryStore.card_price
    /\ card_price_history = RetryStore.card_price_history
    /\ today = 1
    /\ all_cards = <<>> /\ cursor = 1 /\ pc = "idle" /\ price_imports = 0
    /\ plast = NoCall /\ lastCall = {}
    /\ max_workers = 1
    /\ futures = [e \in {RetryEndpoint} |-> Submitted]
    /\ completed = 0 /\ successful = 0 /\ workers = <<>>
    /\ exited = NoExit /\ call = NoPureCall

\* What the API answers to the endpoint on one attempt: the request fails,
\* or one page lists the two cards of the set with the prices of the moment,
\* the second card's 'holofoil' being null at times.
RetryApis ==
    {<<Page(<<c, d>>, 2)>> :
        c \in {Normal("e1", Market(5)), Normal("e1", Market(7))},
        d \in {NormalAndHolo("e2"), HoloNull("e2")}}
    \cup {<<FailedPage>>}

\* subprocess.run([sys.executable, "import_prices.py", endpoint], ...) of an
\* attempt (lines 63-68): the subprocess starts and fetches its pages.
Run(e, api) ==
    /\ e \in DOMAIN futures /\ futures[e].state = "running"
    /\ exited = NoExit
    /\ FetchPages(api)

\* connect_to_db() or a statement of process_card_prices raises (the
\* database is not reachable): the card's transaction writes nothing and the
\* import ends (lines 108, 153-155, 200-202, 214-216).
DbError ==
    /\ pc = "processing"
    /\ pc' = "idle"
    /\ exited' = Exit("import_prices", TRUE, import_prices_main(TRUE))
    /\ plast' = [card |-> all_cards[cursor], card_id |-> NoRow, at |-> today,
                 ok |-> FALSE, calls |-> {}]
    /\ lastCall' = LatestCalls(lastCall, plast.calls)
    /\ UNCHANGED <<cardvars, card_price, card_price_history, today, all_cards,
                   cursor, price_imports, runvars, call>>

\* subprocess.run returns or raises CalledProcessError (lines 63-82): the
\* attempt of the task ends as its subprocess exited.
Returns(e) ==
    /\ e \in DOMAIN futures /\ futures[e].state = "running"
    /\ pc = "idle" /\ exited.script = "import_prices"
    /\ futures' = Exits(e, exited.code)
    /\ exited' = NoExit
    /\ UNCHANGED <<cardvars, pricevars, max_workers, completed, successful,
                   workers, call>>

RetryNext ==
    \/ \E logging_ok \in BOOLEAN : Start(RetryEndpoint, logging_ok)
    \/ \E api \in RetryApis : Run(RetryEndpoint, api)
    \/ \E desc \in BOOLEAN : ProcessNext(FALSE, desc)
    \/ DbError
    \/ Returns(RetryEndpoint)
    \/ Midnight
    \/ Collect(RetryEndpoint)

\* process_endpoint of one endpoint, from its submission to its collection
RetrySpec == RetryInit /\ [][RetryNext]_vars

\* "for card in all_cards: process_card_prices(card)" (lines 192-193) of an
\* attempt in which nothing raises, on the store st.
RECURSIVE AttemptLoop(_, _, _)
AttemptLoop(st, cs, i) ==
    IF st.err \/ i > Len(cs) THEN st
    ELSE Then(process_card_prices(st, cs[i], FindCard(cs[i].id, FALSE), FALSE),
              LAMBDA st1 : AttemptLoop(st1, cs, i + 1))

\* The rows without their surrogate ids.
CurrentContent(R) ==
    {[card_id |-> r.card_id, finish |-> r.finish, condition |-> r.condition,
      price |-> r.price, at |-> r.updated_at] : r \in R}

HistoryContent(R) ==
    {[card_id |-> r.card_id, finish |-> r.finish, condition |-> r.condition,
      price |-> r.price, at |-> r.timestamp] : r \in R}

\* The task succeeded at its second or third attempt, after an attempt that
\* committed a card, and every attempt ran on the day the task started.
RetriedOnOneDay ==
    /\ today = 1
    /\ futures[RetryEndpoint].result = "True"
    /\ Len(futures[RetryEndpoint].log) > 1

\* C37: when an attempt of a partition fails after committing some cards and
\* a retry of the same day succeeds, the current rows and the history
\* entries are those that one successful attempt with the retry's feed
\* leaves on the store the task started from: no entry more for the cards
\* that were committed before.
C37_RetryIsIdempotent ==
    RetriedOnOneDay =>
        \E st \in {AttemptLoop(RetryStore, all_cards, 1)} :
            /\ CurrentContent(card_price) = CurrentContent(st.card_price)
            /\ HistoryContent(card_price_history)
                   = HistoryContent(st.card_price_history)
            /\ Cardinality(card_price_history)
                   = Cardinality(st.card_price_history)
            /\ Cardinality(card_price) = Cardinality(st.card_price)

\* The first attempt committed the first card and failed on the null finish
\* of the second card, whose rolled-back history entry took an id; the retry
\* of the same day succeeded, and the first card has the one history entry of
\* day 0.
C37_Witness ==
    /\ RetriedOnOneDay
    /\ futures[RetryEndpoint].log = <<"nonzero", "exit0">>
    /\ nextId = RetryStore.next + 3
    /\ \E r \in card_price : r.card_id = 1 /\ r.updated_at = 1
    /\ HistoryContent({h \in card_price_history : h.card_id = 1})
           = {[card_id |-> 1, finish |-> "NORMAL", condition |-> NEAR_MINT,
               price |-> <<5>>, at |-> 0]}

----------------------------------------------------------------------------
(* The fetch and the writes of one import_prices_from_api call *)

\* The cards of the first j pages of api.
RECURSIVE FetchedUpTo(_, _)
FetchedUpTo(api, j) ==
    IF j = 0 THEN <<>> ELSE FetchedUpTo(api, j - 1) \o api[j].data

\* The import requests page k of api: no page before it failed, was empty or
\* completed the total count.
Requests(api, k) ==
    \A j \in 1..(k - 1) :
        /\ ~api[j].fails /\ api[j].data # <<>>
        /\ Len(FetchedUpTo(api, j)) < api[j].totalCount

\* A request of the import fails.
FetchFails(api) ==
    \E k \in 1..Len(api) : api[k].fails /\ Requests(api, k)

\* C38: import_prices_from_api writes nothing until every page is fetched: a
\* step that changes the current rows or the history is the transaction of a
\* card of the complete list, and an import whose request fails on a page,
\* the first or a later one, ends with an error, has no card to process and
\* leaves the current rows and the history as they were.
C38_FetchPrecedesWrite ==
    [][/\ card_price' # card_price \/ card_price_history' # card_price_history
          => /\ pc = "processing" /\ cursor <= Len(all_cards)
             /\ all_cards' = all_cards
       /\ \A api \in Apis :
              FetchPages(api) /\ FetchFails(api)
              => /\ pc' = "idle" /\ all_cards' = <<>>
                 /\ exited' = Exit("import_prices", TRUE, 1)
                 /\ card_price' = card_price
                 /\ card_price_history' = card_price_history]_vars

\* An import ended with the error of a failed request after an earlier
\* import had stored a price: the store holds what the earlier import wrote.
C38_Witness ==
    /\ pc = "idle" /\ exited = Exit("import_prices", TRUE, 1)
    /\ all_cards = <<>> /\ price_imports = 2 /\ plast.ok
    /\ card_price # {}
    /\ \A r \in card_price : r.price = <<7>> /\ r.card_id = 1

----------------------------------------------------------------------------
(* The errors of an attempt that are not a failed subprocess *)

\* C39: an attempt of process_endpoint that ends with an error other than a
\* non-zero exit of the subprocess is the task's last one: the task returns
\* failure in the step of that attempt, without sleeping, and a task that has
\* ended makes no further attempt and sleeps no more.
C39_OnlyFailedSubprocessRetried ==
    [][\A e \in DOMAIN futures :
           LET f == futures[e]
               g == futures'[e]
           IN  /\ Len(g.log) > Len(f.log) /\ Last(g.log) = "error"
                  => /\ g.state = "done" /\ g.result = "False"
                     /\ g.slept = f.slept
                     /\ Len(g.log) = Len(f.log) + 1
               /\ Ended(f) => /\ g.log = f.log /\ g.slept = f.slept
                              /\ g.result = f.result /\ Ended(g)
               /\ \A i \in 1..(Len(g.log) - 1) : g.log[i] # "error"]_vars

\* A task's second attempt raised another error after the first one's
\* subprocess had failed: it has returned failure after two attempts and one
\* delay, and it was collected as it was.
C39_Witness ==
    \E e \in DOMAIN futures :
        /\ futures[e].state = "collected" /\ futures[e].result = "False"
        /\ futures[e].log = <<"nonzero", "error">>
        /\ futures[e].slept = <<retry_delay>>

----------------------------------------------------------------------------
(* The era classifier on a store that lacks the set or the reference set *)

\* "if is_modern_set:" (line 83) on what the classifier returned
Truthy(result) == result = "True"

\* The number "7" of a set of 30 cards, with the padding the result selects.
PaddingOf(result) ==
    create_card_set_number(<<"7">>, 30, Truthy(result))

LegacySeven == ReturnStr(<<"7", "/", "3", "0">>)
FixedSeven == ReturnStr(<<"0", "0", "7", "/", "3", "0">>)

\* C40: check_if_set_after_swsh returns False for a set id that is not in the
\* store; when the reference set swsh1 is not in the store, a
\* SWORD_AND_SHIELD set gets a falsy result (None), with which the number is
\* formatted with legacy padding, and a SCARLET_AND_VIOLET set still gets
\* True and fixed padding.
C40_MissingDataIsLegacy ==
    call.fn = "check_if_set_after_swsh" =>
        LET id == call.args[1]
            S == call.args[2]
        IN  /\ ~InSets(S, id) =>
                   call.result = "False" /\ PaddingOf(call.result) = LegacySeven
            /\ InSets(S, id) /\ ~InSets(S, "swsh1") =>
                   /\ SetRow(S, id).series = "SWORD_AND_SHIELD" =>
                          /\ call.result = "None"
                          /\ PaddingOf(call.result) = LegacySeven
                   /\ SetRow(S, id).series = "SCARLET_AND_VIOLET" =>
                          /\ call.result = "True"
                          /\ PaddingOf(call.result) = FixedSeven

\* A SWORD_AND_SHIELD set has been classified on a store that holds a
\* SCARLET_AND_VIOLET set and no reference set.
C40_Witness ==
    /\ call.fn = "check_if_set_after_swsh"
    /\ ~InSets(call.args[2], "swsh1")
    /\ InSets(call.args[2], call.args[1])
    /\ SetRow(call.args[2], call.args[1]).series = "SWORD_AND_SHIELD"
    /\ \E r \in call.args[2] : r.series = "SCARLET_AND_VIOLET"
    /\ call.result = "None"

====
